---- MODULE Spec2Model ----
(***************************************************************************)
(* lazynews: the comment-tree builder (src/src/hn.rs) and the request      *)
(* lifecycle of the application (src/src/app.rs) as state machines.        *)
(*                                                                         *)
(* SpecBuild runs one invocation of HackerNewsApi::fetch_comments over an  *)
(* item tree chosen in InitBuild.  SpecApp runs the event loop of App on   *)
(* the posts stream of the first feed, SpecComments runs it on the         *)
(* comments stream, SpecCache runs the comment view of the first post      *)
(* across refreshes of the posts, SpecFeeds switches between the feeds,    *)
(* SpecLoadMore applies load_more_posts to lists of any length and         *)
(* selection, SpecBookmarks runs the keys of the bookmark pane and of the  *)
(* focus over a loaded list, and SpecNav calls the sibling navigation of   *)
(* src/src/comments_nav.rs on every comment list.  SpecPages loads further *)
(* pages of feeds of every length, SpecOrder runs fetch_comments over      *)
(* trees in which the completion order of a round could matter while the   *)
(* first page is fetched, and SpecSwitch runs feed switches together with  *)
(* load-more while the request ids have not wrapped.  SpecAppFair,         *)
(* SpecBuildFair, SpecCommentsFair and SpecCacheFair are SpecApp,          *)
(* SpecBuild, SpecComments and SpecCache with the tasks resolving and the  *)
(* event loop receiving, for the liveness statements.  Of FeedTab::ALL the *)
(* model keeps the first two tabs; the bookmark pane and the focus are     *)
(* followed by SpecBookmarks only, and the scroll position of the comment  *)
(* view is left out.                                                       *)
(***************************************************************************)
EXTENDS Integers, Sequences, FiniteSets, TLC

(***************************************************************************)
(* Bounds of the model.                                                    *)
(***************************************************************************)
\* Largest number of comment items below the post.
MaxNodes == 3
\* Largest `limit` handed to fetch_comments.
MaxLimit == 3

(***************************************************************************)
(* Program constants.                                                      *)
(***************************************************************************)
DEFAULT_CONCURRENCY == 20
\* The value DEFAULT_CONCURRENCY is scaled to, so that the frontier of a
\* tree of MaxNodes items can hold more ids than one round takes.
ScaledConcurrency == 2

\* The limit of the scenarios of spec.md section 8 and of the tests.
ScenarioLimit == 10

\* The id of the post whose comments are fetched.
PostId == 1
\* The ids of the comment items, in breadth-first order of the tree.
IdPool == <<10, 20, 11, 30, 12, 21>>

VARIABLES
    \* ---- the item source (the network), fixed during one invocation ----
    post_kids,      \* the post item's kids
    items,          \* id -> the item the source holds for it
    net_fail,       \* the ids whose fetch fails
    concurrency,    \* DEFAULT_CONCURRENCY, or the value it is scaled to
    \* ---- fetch_comments ----
    limit,          \* the argument `limit`
    pc,             \* "start" | "loop" | "fetching" | "done"
    root_kids,      \* local root_kids
    pending,        \* local pending (a Vec, popped from its end)
    scheduled_ids,  \* local scheduled_ids
    failed_ids,     \* local failed_ids
    items_by_id,    \* local items_by_id
    batch,          \* the ids of the round in flight
    fetched,        \* the (order, id, maybe_item) the round has collected so far
    result,         \* the value returned
    exit_path,      \* which return statement produced result
    requests        \* history: the fetch rounds issued, each a sequence of ids

bvars == <<post_kids, items, net_fail, concurrency, limit, pc, root_kids,
           pending, scheduled_ids, failed_ids, items_by_id, batch, fetched,
           result, exit_path, requests>>

VARIABLES
    \* ---- App and its event loop ----
    app,            \* the fields of App
    events,         \* the channel of EventHandler: the App events not yet handled
    posts_tasks,    \* the posts tasks spawned by send_async and still running
    cancelled,      \* the cancellation tokens that have been triggered
    comment_tasks,  \* the comment tasks spawned by send_async and still running
    now,            \* the clock (Instant::now), in seconds
    \* ---- history ----
    comments_issued,\* post id -> the number of comment fetches spawned for it
    id_reused,      \* a posts request was begun with the id of an unhandled one
    last_handled    \* what the last handled App event was and what became of it

VARIABLES
    \* ---- the bookmark pane and the focus, fields of App ----
    bookmarks,            \* bookmarks: the bookmarked posts
    bookmarks_state,      \* bookmarks_state.selected()
    bookmarks_collapsed,  \* bookmarks_collapsed
    focus_pane            \* "Feeds" | "Bookmarks" | "Posts" | "Comments"

pvars == <<bookmarks, bookmarks_state, bookmarks_collapsed, focus_pane>>

VARIABLES
    \* ---- one call of a function of comments_nav ----
    nav_comments,   \* the argument `comments`
    current_index,  \* the argument `current_index`
    nav_call,       \* "none", or the function that was called
    nav_result      \* the value it returned

nvars == <<nav_comments, current_index, nav_call, nav_result>>

avars == <<app, events, posts_tasks, cancelled, comment_tasks, now,
           comments_issued, id_reused, last_handled, pvars, nvars>>

vars == <<bvars, avars>>

(***************************************************************************)
(* Sequence helpers.                                                       *)
(***************************************************************************)
Reverse(s) == [i \in 1..Len(s) |-> s[Len(s) + 1 - i]]

Take(s, n) == SubSeq(s, 1, IF n < Len(s) THEN n ELSE Len(s))

Range(s) == {s[i] : i \in 1..Len(s)}

RECURSIVE Flatten(_)
Flatten(ss) == IF ss = <<>> THEN <<>> ELSE Head(ss) \o Flatten(Tail(ss))

(***************************************************************************)
(* clean_comment_text.  A text is a sequence of tokens: a tag, an entity,  *)
(* a blank " ", a line break "\n", or a word.                              *)
(***************************************************************************)
\* The five replace() calls at the head of clean_comment_text.
ParagraphNormalize(tok) ==
    IF tok = "<p>" THEN <<"\n">>
    ELSE IF tok = "</p>" THEN <<>>
    ELSE IF tok \in {"<br>", "<br/>", "<br />"} THEN <<"\n">>
    ELSE <<tok>>

RECURSIVE ParagraphNormalized(_)
ParagraphNormalized(text) ==
    IF text = <<>> THEN <<>>
    ELSE ParagraphNormalize(Head(text)) \o ParagraphNormalized(Tail(text))

\* The markup tokens left after ParagraphNormalize: '<' ... '>'.
MarkupTags == {"<em>", "</em>", "<i>", "</i>", "<a>", "</a>"}

strip_html_tags(text) == SelectSeq(text, LAMBDA tok : tok \notin MarkupTags)

DecodeEntity(tok) ==
    IF tok = "&quot;" THEN <<"\"">>
    ELSE IF tok = "&#x27;" THEN <<"'">>
    ELSE IF tok = "&#x2F;" THEN <<"/">>
    ELSE IF tok = "&amp;" THEN <<"&">>
    ELSE IF tok = "&lt;" THEN <<"<">>
    ELSE IF tok = "&gt;" THEN <<">">>
    ELSE <<tok>>

RECURSIVE decode_html_entities(_)
decode_html_entities(text) ==
    IF text = <<>> THEN <<>>
    ELSE DecodeEntity(Head(text)) \o decode_html_entities(Tail(text))

IsWhitespace(tok) == tok \in {" ", "\n"}

RECURSIVE TrimStart(_)
TrimStart(s) ==
    IF s # <<>> /\ IsWhitespace(Head(s)) THEN TrimStart(Tail(s)) ELSE s

\* str::trim
Trim(s) == Reverse(TrimStart(Reverse(TrimStart(s))))

\* The index of the first line break of s, 0 when it has none.
FirstBreak(s) ==
    IF \E i \in 1..Len(s) : s[i] = "\n"
    THEN CHOOSE i \in 1..Len(s) : s[i] = "\n" /\ \A j \in 1..(i - 1) : s[j] # "\n"
    ELSE 0

\* str::lines: no line for the empty text, none after a closing line break.
RECURSIVE Lines(_)
Lines(s) ==
    IF s = <<>> THEN <<>>
    ELSE LET i == FirstBreak(s)
         IN IF i = 0 THEN <<s>>
            ELSE <<SubSeq(s, 1, i - 1)>> \o Lines(SubSeq(s, i + 1, Len(s)))

\* The scan() of clean_comment_text: a run of blank lines keeps its first.
RECURSIVE CollapseBlank(_, _)
CollapseBlank(lines, last_blank) ==
    IF lines = <<>> THEN <<>>
    ELSE IF Head(lines) = <<>>
         THEN IF last_blank THEN CollapseBlank(Tail(lines), TRUE)
              ELSE <<<<>>>> \o CollapseBlank(Tail(lines), TRUE)
         ELSE <<Head(lines)>> \o CollapseBlank(Tail(lines), FALSE)

RECURSIVE Join(_)
Join(lines) ==
    IF lines = <<>> THEN <<>>
    ELSE IF Len(lines) = 1 THEN Head(lines)
    ELSE Head(lines) \o <<"\n">> \o Join(Tail(lines))

TrimLines(lines) == [i \in 1..Len(lines) |-> Trim(lines[i])]

clean_comment_text(text) ==
    LET paragraph_normalized == ParagraphNormalized(text)
        without_tags == strip_html_tags(paragraph_normalized)
        decoded == decode_html_entities(without_tags)
        compacted == Trim(Join(CollapseBlank(TrimLines(Lines(decoded)), FALSE)))
    IN Trim(compacted)

\* The two tests of clean_comment_text in src/src/hn.rs.
CleanTextTests ==
    /\ clean_comment_text(<<"<p>", "Hello", " ", "&amp;", " ", "<em>", "world",
                            "</em>", "</p>", "<p>", "Line", " ", "2", "</p>",
                            "<br />", "&quot;", "quote", "&quot;">>)
         = <<"Hello", " ", "&", " ", "world", "\n", "Line", " ", "2", "\n",
             "\"", "quote", "\"">>
    /\ clean_comment_text(<<"<p>", "One", "</p>", "<p>", "</p>", "<p>", "</p>",
                            "<p>", "Two", "</p>">>)
         = <<"One", "\n", "\n", "Two">>

(***************************************************************************)
(* Items.  kids is the item's child-id list (None and the empty list are   *)
(* the same to every reader: unwrap_or_default, unwrap_or(&[])).           *)
(***************************************************************************)
Item(id, kids, kind, dead, deleted, by, time, text) ==
    [id |-> id, kids |-> kids, kind |-> kind, dead |-> dead,
     deleted |-> deleted, by |-> by, time |-> time, text |-> text]

\* What an item below the post can be, apart from its kids.
ItemShapes == {"comment", "dead", "deleted", "story", "blank", "failing"}

\* The texts of the comments: those of the scenario of spec.md section 8 for
\* the items 10, 11 and 20.
CommentText(id) ==
    IF id = 10 THEN <<"<p>", "Hi", "</p>">>
    ELSE IF id = 11 THEN <<"Reply">>
    ELSE IF id = 20 THEN <<"Second">>
    ELSE <<"<p>", "More", "<br>", "text", "</p>">>

ShapedItem(id, kids, shape) ==
    IF shape = "dead"
    THEN Item(id, kids, "comment", TRUE, FALSE, "bob", 110, <<"should", " ", "not", " ", "render">>)
    ELSE IF shape = "deleted"
    THEN Item(id, kids, "comment", FALSE, TRUE, "", 0, <<>>)
    ELSE IF shape = "story"
    THEN Item(id, kids, "story", FALSE, FALSE, "carol", 120, <<"not", " ", "a", " ", "comment">>)
    ELSE IF shape = "blank"
    THEN Item(id, kids, "comment", FALSE, FALSE, "", 130, <<"<p>", " ", "</p>", "<br>">>)
    ELSE Item(id, kids, "comment", FALSE, FALSE, "alice", 100, CommentText(id))

(***************************************************************************)
(* build_comments_from_cache.                                              *)
(***************************************************************************)
None == <<>>
Some(value) == <<value>>

PendingComment(id, depth, ancestor_has_next_sibling, is_last_sibling) ==
    [id |-> id, depth |-> depth,
     ancestor_has_next_sibling |-> ancestor_has_next_sibling,
     is_last_sibling |-> is_last_sibling]

\* Mutant: the `+ 1` of `index + 1 == count` dropped.
IsLastIndexNoOffset(index, count) == index = count

\* index is 0-based, as enumerate() counts.
IsLastIndex(index, count) == index + 1 = count

\* The stack entries of the root kids: pushed in reverse, so that the first
\* root is popped first.
RootStack(kids) ==
    [i \in 1..Len(kids) |->
        PendingComment(kids[Len(kids) + 1 - i], 0, <<>>,
                       IsLastIndex(Len(kids) - i, Len(kids)))]

\* Mutant: the negation of `!node.is_last_sibling` dropped.
ChildAncestorsCopiesFlag(node) ==
    Append(node.ancestor_has_next_sibling, node.is_last_sibling)

ChildAncestors(node) ==
    Append(node.ancestor_has_next_sibling, ~node.is_last_sibling)

\* The stack entries of node's children, pushed in reverse.
ChildStack(node, child_ids) ==
    [i \in 1..Len(child_ids) |->
        PendingComment(child_ids[Len(child_ids) + 1 - i], node.depth + 1,
                       ChildAncestors(node),
                       IsLastIndex(Len(child_ids) - i, Len(child_ids)))]

\* Mutant: the `continue` for an item that is not a comment is missing.
IsRenderedIgnoresKind(item) ==
    /\ ~(item.dead \/ item.deleted)
    /\ clean_comment_text(item.text) # <<>>

\* The three `continue`s after the children are pushed.
IsRendered(item) ==
    /\ ~(item.dead \/ item.deleted)
    /\ item.kind = "comment"
    /\ clean_comment_text(item.text) # <<>>

\* Comment; id is not a field of the source's Comment: it names the item the
\* node was built from.
Comment(node, item) ==
    [id |-> node.id,
     author |-> IF item.by # "" THEN item.by ELSE "unknown",
     text |-> clean_comment_text(item.text),
     published_at |-> item.time,
     depth |-> node.depth,
     ancestor_has_next_sibling |-> node.ancestor_has_next_sibling,
     is_last_sibling |-> node.is_last_sibling]

\* Mutant: `>` for `>=`.
LimitReachedOffByOne(comments, lim) == Len(comments) > lim

LimitReached(comments, lim) == Len(comments) >= lim

\* Mutant: the failed set is not consulted.
LookupIgnoresFailed(id, cache, failed) ==
    IF id \in DOMAIN cache THEN "cached" ELSE "missing"

\* Mutant: an id that is not in the cache is skipped, failed or not.
LookupSkipsMissing(id, cache, failed) ==
    IF id \in DOMAIN cache THEN "cached" ELSE "failed"

\* `items_by_id.get(&node.id)` and, when it is None, `failed_ids.contains`.
Lookup(id, cache, failed) ==
    IF id \in DOMAIN cache THEN "cached"
    ELSE IF id \in failed THEN "failed"
    ELSE "missing"

\* The while-let loop over the stack.
RECURSIVE BuildWalk(_, _, _, _, _)
BuildWalk(stack, comments, lim, cache, failed) ==
    IF stack = <<>> THEN Some(comments)
    ELSE LET node == stack[Len(stack)]
             rest == SubSeq(stack, 1, Len(stack) - 1)
         IN IF LimitReached(comments, lim) THEN Some(comments)
            ELSE IF Lookup(node.id, cache, failed) = "failed"
            THEN BuildWalk(rest, comments, lim, cache, failed)
            ELSE IF Lookup(node.id, cache, failed) = "missing"
            THEN None
            ELSE LET item == cache[node.id]
                     pushed == rest \o ChildStack(node, item.kids)
                 IN IF IsRendered(item)
                    THEN BuildWalk(pushed, Append(comments, Comment(node, item)),
                                   lim, cache, failed)
                    ELSE BuildWalk(pushed, comments, lim, cache, failed)

build_comments_from_cache(kids, lim, cache, failed) ==
    BuildWalk(RootStack(kids), <<>>, lim, cache, failed)

(***************************************************************************)
(* The item source: fetch_single_item over the tree chosen in InitBuild.   *)
(***************************************************************************)
NoItem == [some |-> FALSE]
SomeItem(item) == [some |-> TRUE, item |-> item]

\* .ok() of fetch_single_item(id): the item, or nothing when the fetch fails.
FetchSingleItem(id) ==
    IF id \in net_fail THEN NoItem ELSE SomeItem(items[id])

\* The ids of the tree positions whose parent position is p (0: the post),
\* left to right.
KidsOfPosition(par, n, p) ==
    LET positions == SelectSeq([i \in 1..n |-> i], LAMBDA i : par[i] = p)
    IN [k \in 1..Len(positions) |-> IdPool[positions[k]]]

\* The parent maps of the forests of n nodes numbered breadth-first.
Forests(n) ==
    {par \in [1..n -> 0..MaxNodes] :
        /\ \A i \in 1..n : par[i] < i
        /\ \A i \in 1..n : \A j \in 1..n : i < j => par[i] <= par[j]}

(***************************************************************************)
(* fetch_comments.                                                         *)
(***************************************************************************)
Pending == [kind |-> "pending", comments |-> <<>>]
Ok(comments) == [kind |-> "ok", comments |-> comments]
Err == [kind |-> "err", comments |-> <<>>]

Limits == 0..MaxLimit \cup {ScenarioLimit}

EmptyMap == [x \in {} |-> x]

(***************************************************************************)
(* App (src/src/app.rs): bounds, constants, the story source and the       *)
(* state after App::new().                                                 *)
(***************************************************************************)
\* Width in bits of next_posts_request_id (a u64 in the source).
IdBits == 2
\* Largest number of posts requests asked for or begun and not yet handled.
MaxInFlight == 2
\* Largest number of comment fetches spawned in one run.
MaxCommentFetches == 3
\* 30 in the source; scaled so that a feed of three stories has two pages.
POSTS_PAGE_SIZE == 2

LOAD_MORE_TRIGGER_NUMERATOR == 3
LOAD_MORE_TRIGGER_DENOMINATOR == 4
COMMENTS_CACHE_REFRESH_AFTER_SECS == 90

Min(a, b) == IF a < b THEN a ELSE b
Max(a, b) == IF a < b THEN b ELSE a

\* Option::unwrap_or.
UnwrapOr(opt, default) == IF opt = None THEN default ELSE opt[1]

\* HashMap::insert.
Insert(map, key, value) == (key :> value) @@ map

\* u64::MAX at the width of the model.
MaxRequestId == 2 ^ IdBits - 1

\* The first two tabs of FeedTab::ALL.
FeedTabALL == <<"Top", "New">>

\* FeedTab::index.
FeedIndex(feed) == (CHOOSE i \in 1..Len(FeedTabALL) : FeedTabALL[i] = feed) - 1

\* FeedTab::from_index.
from_index(index) == FeedTabALL[(index % Len(FeedTabALL)) + 1]

\* What fetch_story_ids returns for a feed when it succeeds.
StoryIdsOf(feed) == IF feed = "Top" THEN <<1, 2, 3>> ELSE <<4, 5>>

\* Every story id of the source.
StoryIds == Range(StoryIdsOf("Top")) \cup Range(StoryIdsOf("New"))

\* The story ids whose item fetch may fail.
FlakyIds == {3}

\* The item the source holds for a story id: 2 is a job, 5 is a poll.
StoryItem(id) ==
    [id |-> id,
     kind |-> IF id = 2 THEN "job" ELSE IF id = 5 THEN "poll" ELSE "story",
     dead |-> FALSE,
     deleted |-> FALSE,
     title |-> Some("title")]

\* The orders in which the n requests of one call can complete: the k-th to
\* complete is the request dispatched in place arrival[k].
CompletionOrders(n) == Permutations(1..n)

\* The requests complete in the order they were dispatched in.
DispatchOrder(n) == [k \in 1..n |-> k]

\* Mutant: the fetched pairs are left in the order they completed in.
SortByIdxKeepsArrival(pairs) == pairs

\* fetched.sort_by_key(|(idx, _)| *idx): the indices differ pairwise.
SortByIdx(pairs) ==
    [r \in 1..Len(pairs) |->
        CHOOSE e \in Range(pairs) :
            Cardinality({f \in Range(pairs) : f[1] < e[1]}) = r - 1]

\* HackerNewsApi::fetch_items_by_ids: the requests complete in the order
\* arrival (buffer_unordered), the failed ones are dropped (filter_map), the
\* rest is sorted by the index in ids, and the dead, the deleted and the
\* unsupported kinds are left out.
fetch_items_by_ids(ids, failing, arrival) ==
    LET completed == [k \in 1..Len(ids) |->
                         <<arrival[k] - 1, ids[arrival[k]]>>]
        kept    == SelectSeq(completed, LAMBDA e : e[2] \notin failing)
        sorted  == SortByIdx(kept)
        indexed == [i \in 1..Len(sorted) |-> StoryItem(sorted[i][2])]
    IN SelectSeq(indexed, LAMBDA item :
           ~item.dead /\ ~item.deleted /\ item.kind \in {"story", "job"})

\* PostType::from_kind.
from_kind(kind) ==
    IF kind = "story" THEN Some("Story")
    ELSE IF kind = "job" THEN Some("Job")
    ELSE None

\* App::posts_from_items.
posts_from_items(item_list) ==
    LET kept == SelectSeq(item_list, LAMBDA item :
                    /\ ~(item.dead \/ item.deleted)
                    /\ from_kind(item.kind) # None
                    /\ item.title # None)
    IN [i \in 1..Len(kept) |->
           [id |-> kept[i].id, post_type |-> from_kind(kept[i].kind)[1]]]

\* App::new().
AppNew ==
    [story_ids |-> <<>>,
     next_story_index |-> 0,
     has_more_posts |-> TRUE,
     posts |-> <<>>,
     posts_notice |-> None,
     selected_feed |-> "Top",
     feed_cache |-> EmptyMap,
     next_posts_request_id |-> 0,
     active_posts_request_id |-> None,
     posts_request_cancel |-> None,
     last_fetched |-> None,
     loading |-> FALSE,
     selected |-> None,
     comments_open |-> FALSE,
     comments |-> <<>>,
     comments_for_post_id |-> None,
     comments_loading |-> FALSE,
     comments_error |-> None,
     comments_notice |-> None,
     comments_cache |-> EmptyMap]

\* AppEvent::Refresh.
Refresh == [type |-> "Refresh"]

\* AppEvent::PostsFetched { request_id, result }.
PostsFetched(request_id, res) ==
    [type |-> "PostsFetched", request_id |-> request_id, result |-> res]

\* AppEvent::LoadCommentsComplete { post_id, result }.
LoadCommentsComplete(post_id, res) ==
    [type |-> "LoadCommentsComplete", post_id |-> post_id, result |-> res]

\* Result::Ok and Result::Err of the tasks.
OkOf(payload) == [ok |-> TRUE, payload |-> payload]
ErrOf(err) == [ok |-> FALSE, err |-> err]

\* Nothing has been handled yet.
NothingHandled == [type |-> "none", outcome |-> "none"]

\* No function of comments_nav is called.
NavIdle ==
    /\ nav_comments = <<>>
    /\ current_index = 0
    /\ nav_call = "none"
    /\ nav_result = None

\* The bookmark pane and the focus as App::new() leaves them.
PaneNew ==
    /\ bookmarks = <<>>
    /\ bookmarks_state = None
    /\ bookmarks_collapsed = FALSE
    /\ focus_pane = "Posts"

\* App::new() followed by the first statement of App::run, which sends
\* AppEvent::Refresh.
AppStart ==
    /\ app = AppNew
    /\ events = <<Refresh>>
    /\ posts_tasks = <<>>
    /\ cancelled = {}
    /\ comment_tasks = <<>>
    /\ now = 0
    /\ comments_issued = [id \in StoryIds |-> 0]
    /\ id_reused = FALSE
    /\ last_handled = NothingHandled
    /\ PaneNew
    /\ NavIdle

InitBuild ==
    /\ \E n \in 0..MaxNodes :
         \E par \in Forests(n) :
           \E shape \in [1..n -> ItemShapes] :
             /\ post_kids = KidsOfPosition(par, n, 0)
             /\ items = [id \in {IdPool[i] : i \in 1..n} |->
                            LET i == CHOOSE i \in 1..n : IdPool[i] = id
                            IN ShapedItem(id, KidsOfPosition(par, n, i), shape[i])]
             /\ net_fail = {IdPool[i] : i \in {j \in 1..n : shape[j] = "failing"}}
    /\ concurrency \in {ScaledConcurrency, DEFAULT_CONCURRENCY}
    /\ limit \in Limits
    /\ pc = "start"
    /\ root_kids = <<>>
    /\ pending = <<>>
    /\ scheduled_ids = {}
    /\ failed_ids = {}
    /\ items_by_id = EmptyMap
    /\ batch = <<>>
    /\ fetched = <<>>
    /\ result = Pending
    /\ exit_path = "none"
    /\ requests = <<>>
    /\ AppStart

\* Mutant: the early return is missing.
ReturnsBeforeFetchNever(lim) == FALSE

\* `if limit == 0 { return Ok(Vec::new()) }`: before anything is fetched.
ReturnsBeforeFetch(lim) == lim = 0

\* The head of fetch_comments, up to the loop: the limit check, the fetch of
\* the post (which may fail), the empty-kids return, the four locals.
FetchCommentsBegin ==
    /\ pc = "start"
    /\ IF ReturnsBeforeFetch(limit)
       THEN /\ result' = Ok(<<>>)
            /\ exit_path' = "limit_zero"
            /\ pc' = "done"
            /\ UNCHANGED <<root_kids, pending, scheduled_ids, requests>>
       ELSE /\ requests' = Append(requests, <<PostId>>)
            /\ \E post_ok \in BOOLEAN :
                 IF ~post_ok
                 THEN /\ result' = Err
                      /\ exit_path' = "post_error"
                      /\ pc' = "done"
                      /\ UNCHANGED <<root_kids, pending, scheduled_ids>>
                 ELSE IF post_kids = <<>>
                 THEN /\ result' = Ok(<<>>)
                      /\ exit_path' = "no_kids"
                      /\ pc' = "done"
                      /\ root_kids' = post_kids
                      /\ UNCHANGED <<pending, scheduled_ids>>
                 ELSE /\ root_kids' = post_kids
                      /\ pending' = Reverse(post_kids)
                      /\ scheduled_ids' = Range(post_kids)
                      /\ pc' = "loop"
                      /\ UNCHANGED <<result, exit_path>>
    /\ UNCHANGED <<post_kids, items, net_fail, concurrency, limit, failed_ids,
                   items_by_id, batch, fetched>>
    /\ UNCHANGED avars

\* Mutant: the loop pops the whole of pending.
BatchSizeUncapped(pend) == Len(pend)

\* Mutant: the loop pops nothing.
BatchSizeNone(pend) == 0

\* The number of ids the `while batch.len() < DEFAULT_CONCURRENCY` loop pops.
BatchSize(pend) ==
    IF Len(pend) < concurrency THEN Len(pend) ELSE concurrency

\* The ids popped from the end of pending, in the order they are popped.
TakeBatch(pend) == [i \in 1..BatchSize(pend) |-> pend[Len(pend) + 1 - i]]

\* Mutant: `>` for `>=` in the return condition.
PassReturnsPastLimit(built, lim, pend) ==
    built # None /\ (Len(built[1]) > lim \/ pend = <<>>)

\* Mutant: returns only once nothing is left to fetch.
PassReturnsOnlyDrained(built, lim, pend) == built # None /\ pend = <<>>

\* The return condition at the top of the loop.
PassReturns(built, lim, pend) ==
    built # None /\ (Len(built[1]) >= lim \/ pend = <<>>)

\* The top of the loop: a materialization pass, then return, break or the
\* dispatch of the next round.
LoopTop ==
    /\ pc = "loop"
    /\ LET built == build_comments_from_cache(root_kids, limit, items_by_id, failed_ids)
       IN IF PassReturns(built, limit, pending)
          THEN /\ result' = Ok(built[1])
               /\ exit_path' = "pass"
               /\ pc' = "done"
               /\ UNCHANGED <<pending, batch, requests>>
          ELSE IF pending = <<>>
          THEN /\ result' = Ok(IF built = None THEN <<>> ELSE built[1])
               /\ exit_path' = "fallback"
               /\ pc' = "done"
               /\ UNCHANGED <<pending, batch, requests>>
          ELSE /\ batch' = TakeBatch(pending)
               /\ pending' = SubSeq(pending, 1, Len(pending) - BatchSize(pending))
               /\ requests' = Append(requests, TakeBatch(pending))
               /\ pc' = "fetching"
               /\ UNCHANGED <<result, exit_path>>
    /\ UNCHANGED <<post_kids, items, net_fail, concurrency, limit, root_kids,
                   scheduled_ids, failed_ids, items_by_id, fetched>>
    /\ UNCHANGED avars

\* The locals the result loop updates.
Locals(pend, sched, cache, failed) ==
    [pending |-> pend, scheduled_ids |-> sched, items_by_id |-> cache,
     failed_ids |-> failed]

\* `for kid in kids.iter().rev() { if scheduled_ids.insert(kid) { pending.push(kid) } }`
RECURSIVE ScheduleKids(_, _)
ScheduleKids(kids_rev, st) ==
    IF kids_rev = <<>> THEN st
    ELSE LET kid == Head(kids_rev)
         IN IF kid \in st.scheduled_ids
            THEN ScheduleKids(Tail(kids_rev), st)
            ELSE ScheduleKids(Tail(kids_rev),
                     [st EXCEPT !.scheduled_ids = @ \cup {kid},
                                !.pending = Append(@, kid)])

\* Mutant: an id whose fetch failed goes back to the frontier.
ProcessOneRetriesFailed(entry, st) ==
    IF entry[3].some
    THEN LET after == ScheduleKids(Reverse(entry[3].item.kids), st)
         IN [after EXCEPT !.items_by_id = (entry[2] :> entry[3].item) @@ @]
    ELSE [st EXCEPT !.failed_ids = @ \cup {entry[2]},
                    !.pending = Append(@, entry[2])]

\* Mutant: an id whose fetch failed is not put into failed_ids.
ProcessOneDropsFailed(entry, st) ==
    IF entry[3].some
    THEN LET after == ScheduleKids(Reverse(entry[3].item.kids), st)
         IN [after EXCEPT !.items_by_id = (entry[2] :> entry[3].item) @@ @]
    ELSE st

\* Mutant: a fetched item is cached without its kids being scheduled.
ProcessOneForgetsKids(entry, st) ==
    IF entry[3].some
    THEN [st EXCEPT !.items_by_id = (entry[2] :> entry[3].item) @@ @]
    ELSE [st EXCEPT !.failed_ids = @ \cup {entry[2]}]

\* One (order, id, maybe_item) of the result loop.
ProcessOne(entry, st) ==
    IF entry[3].some
    THEN LET after == ScheduleKids(Reverse(entry[3].item.kids), st)
         IN [after EXCEPT !.items_by_id = (entry[2] :> entry[3].item) @@ @]
    ELSE [st EXCEPT !.failed_ids = @ \cup {entry[2]}]

\* `for (_, id, maybe_item) in fetched.into_iter().rev()`
RECURSIVE ProcessFetched(_, _)
ProcessFetched(fetched_rev, st) ==
    IF fetched_rev = <<>> THEN st
    ELSE ProcessFetched(Tail(fetched_rev), ProcessOne(Head(fetched_rev), st))

\* Mutant: the results are processed in the order they arrived in.
SortByOrderKeepsArrival(collected) == collected

\* fetched.sort_by_key(|(order, _, _)| *order): the orders are 0..len-1.
SortByOrder(collected) ==
    [i \in 1..Len(collected) |->
        CHOOSE e \in Range(collected) : e[1] = i - 1]

\* Mutant: the error of an item fetch is returned, as `?` would.
ReturnsItemErrorOfFailed(maybe_item) == ~maybe_item.some

\* `self.fetch_single_item(id).await.ok()`: the error of an item fetch is
\* turned into None and never returned.
ReturnsItemError(maybe_item) == FALSE

\* The positions of batch whose request has not resolved yet: the requests
\* buffer_unordered has in flight.
InFlight ==
    {j \in 1..Len(batch) : \A k \in 1..Len(fetched) : fetched[k][1] # j - 1}

\* One request of the round resolves: buffer_unordered yields the results in
\* any completion order and collect() gathers them.
RequestResolves ==
    /\ pc = "fetching"
    /\ \E j \in InFlight :
         fetched' = Append(fetched, <<j - 1, batch[j], FetchSingleItem(batch[j])>>)
    /\ UNCHANGED <<post_kids, items, net_fail, concurrency, limit, pc, root_kids,
                   pending, scheduled_ids, failed_ids, items_by_id, batch,
                   result, exit_path, requests>>
    /\ UNCHANGED avars

\* `.collect().await`: the stream has ended, no request is in flight.
Collected(in_flight) == in_flight = {}

\* The round is over: the results are sorted and processed.
RoundComplete ==
    /\ pc = "fetching"
    /\ Collected(InFlight)
    /\ LET sorted == SortByOrder(fetched)
           st == ProcessFetched(Reverse(sorted),
                     Locals(pending, scheduled_ids, items_by_id, failed_ids))
       IN IF \E j \in 1..Len(fetched) : ReturnsItemError(fetched[j][3])
          THEN /\ result' = Err
               /\ exit_path' = "item_error"
               /\ pc' = "done"
               /\ UNCHANGED <<pending, scheduled_ids, items_by_id, failed_ids>>
          ELSE /\ pending' = st.pending
               /\ scheduled_ids' = st.scheduled_ids
               /\ items_by_id' = st.items_by_id
               /\ failed_ids' = st.failed_ids
               /\ pc' = "loop"
               /\ UNCHANGED <<result, exit_path>>
    /\ batch' = <<>>
    /\ fetched' = <<>>
    /\ UNCHANGED <<post_kids, items, net_fail, concurrency, limit, root_kids,
                   requests>>
    /\ UNCHANGED avars

NextBuild == FetchCommentsBegin \/ LoopTop \/ RequestResolves \/ RoundComplete

SpecBuild == InitBuild /\ [][NextBuild]_vars

(***************************************************************************)
(* App: the procedures.  Each takes the world (the App, its channel, the   *)
(* spawned tasks) and yields the world it leaves behind.                   *)
(***************************************************************************)
World ==
    [app |-> app, events |-> events, posts_tasks |-> posts_tasks,
     cancelled |-> cancelled, comment_tasks |-> comment_tasks, now |-> now,
     comments_issued |-> comments_issued, id_reused |-> id_reused,
     last_handled |-> last_handled]

RemoveAt(s, i) == SubSeq(s, 1, i - 1) \o SubSeq(s, i + 1, Len(s))

\* The tokens the running posts tasks wait on.
TaskTokens(w) == {w.posts_tasks[i].cancel_token : i \in DOMAIN w.posts_tasks}

\* The ids of the posts requests whose result has not been handled yet.
UnhandledIds(w) ==
    {w.posts_tasks[i].request_id : i \in DOMAIN w.posts_tasks}
    \cup {w.events[i].request_id :
            i \in {j \in DOMAIN w.events : w.events[j].type = "PostsFetched"}}

\* CancellationToken::new(): a token no running task holds.
FreshToken(in_use) ==
    CHOOSE k \in 1..(Cardinality(in_use) + 1) :
        k \notin in_use /\ \A j \in 1..(k - 1) : j \in in_use

\* Mutant: the counter wraps to 0.
NextRequestIdWrapsToZero(id) == (id + 1) % (2 ^ IdBits)

\* next_posts_request_id.wrapping_add(1).max(1).
NextRequestId(id) == Max((id + 1) % (2 ^ IdBits), 1)

\* Mutant: the held token is dropped without being triggered.
CancelHeldNever(held, triggered) == triggered

\* `if let Some(cancel_token) = self.posts_request_cancel.take()
\*  { cancel_token.cancel(); }`
CancelHeld(held, triggered) ==
    IF held = None THEN triggered ELSE triggered \cup {held[1]}

\* Mutant: loading is left as it was.
BeginPostsRequestLeavesLoading(w) ==
    LET a == w.app
        request_id == NextRequestId(a.next_posts_request_id)
        cancel_token == FreshToken(TaskTokens(w))
    IN [w EXCEPT
          !.cancelled = CancelHeld(a.posts_request_cancel, @) \cap TaskTokens(w),
          !.id_reused = @ \/ request_id \in UnhandledIds(w),
          !.app = [a EXCEPT !.next_posts_request_id = request_id,
                            !.active_posts_request_id = Some(request_id),
                            !.posts_request_cancel = Some(cancel_token)]]

\* App::begin_posts_request; the (request_id, cancel_token) it returns are
\* left in next_posts_request_id and posts_request_cancel.
begin_posts_request(w) ==
    LET a == w.app
        request_id == NextRequestId(a.next_posts_request_id)
        cancel_token == FreshToken(TaskTokens(w))
    IN [w EXCEPT
          !.cancelled = CancelHeld(a.posts_request_cancel, @) \cap TaskTokens(w),
          !.id_reused = @ \/ request_id \in UnhandledIds(w),
          !.app = [a EXCEPT !.next_posts_request_id = request_id,
                            !.active_posts_request_id = Some(request_id),
                            !.loading = TRUE,
                            !.posts_request_cancel = Some(cancel_token)]]

\* The task spawned by refresh_posts or request_more_posts.
PostsTask(request_id, cancel_token, mode, feed, page_ids, next_story_index) ==
    [request_id |-> request_id, cancel_token |-> cancel_token, mode |-> mode,
     feed |-> feed, page_ids |-> page_ids, next_story_index |-> next_story_index]

\* App::refresh_posts.
refresh_posts(w) ==
    LET w1 == begin_posts_request(w)
        a1 == w1.app
        a2 == IF a1.posts = <<>>
              THEN [a1 EXCEPT !.story_ids = <<>>,
                              !.next_story_index = 0,
                              !.has_more_posts = TRUE,
                              !.selected = None]
              ELSE a1
    IN [w1 EXCEPT
          !.app = [a2 EXCEPT !.posts_notice = None],
          !.posts_tasks = Append(@, PostsTask(a1.next_posts_request_id,
                                     a1.posts_request_cancel[1], "Replace",
                                     a1.selected_feed, <<>>, 0))]

\* Mutant: the page ends one story after its start.
NextStoryIndexOneFurther(start, len) == Min(start + 1, len)

\* `start.saturating_add(POSTS_PAGE_SIZE).min(self.story_ids.len())`: the
\* sum stays far below usize::MAX, so it never saturates.
NextStoryIndex(start, len) == Min(start + POSTS_PAGE_SIZE, len)

\* App::request_more_posts.
request_more_posts(w) ==
    LET a == w.app
    IN IF a.loading \/ ~a.has_more_posts THEN w
       ELSE IF a.next_story_index >= Len(a.story_ids)
       THEN [w EXCEPT !.app.has_more_posts = FALSE]
       ELSE LET w1 == begin_posts_request(w)
                start == a.next_story_index
                next_story_index == NextStoryIndex(start, Len(a.story_ids))
                page_ids == SubSeq(a.story_ids, start + 1, next_story_index)
            IN [w1 EXCEPT
                  !.posts_tasks = Append(@, PostsTask(
                      w1.app.next_posts_request_id,
                      w1.app.posts_request_cancel[1], "Append",
                      a.selected_feed, page_ids, next_story_index))]

\* Mutant: the selection is not stored with the feed.
CacheCurrentFeedDropsSelection(a) ==
    [a EXCEPT !.feed_cache = Insert(@, a.selected_feed,
        [story_ids |-> a.story_ids,
         next_story_index |-> a.next_story_index,
         has_more_posts |-> a.has_more_posts,
         posts |-> a.posts,
         selected_index |-> None,
         last_fetched |-> a.last_fetched])]

\* App::cache_current_feed.
cache_current_feed(a) ==
    [a EXCEPT !.feed_cache = Insert(@, a.selected_feed,
        [story_ids |-> a.story_ids,
         next_story_index |-> a.next_story_index,
         has_more_posts |-> a.has_more_posts,
         posts |-> a.posts,
         selected_index |-> a.selected,
         last_fetched |-> a.last_fetched])]

\* Mutant: every result is taken for the active request's.
IsSupersededNever(active, request_id) == FALSE

\* `self.active_posts_request_id != Some(request_id)`.
IsSuperseded(active, request_id) == active # Some(request_id)

\* Mutant: the failure notice is set whether posts are loaded or not.
ShowsFailureAlways(loaded) == TRUE

\* `if self.posts.is_empty()` of the Err arm: the failure is shown only when
\* no posts are loaded.
ShowsFailure(loaded) == loaded = <<>>

\* App::handle_posts_fetched.
handle_posts_fetched(w, request_id, res) ==
    LET a == w.app
        a1 == [a EXCEPT !.loading = FALSE,
                        !.active_posts_request_id = None,
                        !.posts_request_cancel = None]
    IN IF IsSuperseded(a.active_posts_request_id, request_id) THEN w
       ELSE IF res.ok
       THEN LET payload == res.payload
                story_ids == IF payload.story_ids # None
                             THEN payload.story_ids[1] ELSE a1.story_ids
                incoming_posts == posts_from_items(payload.items)
                new_posts == IF payload.mode = "Replace"
                             THEN incoming_posts
                             ELSE a1.posts \o incoming_posts
                a2 == [a1 EXCEPT
                         !.posts_notice = None,
                         !.story_ids = story_ids,
                         !.next_story_index = payload.next_story_index,
                         !.posts = new_posts,
                         !.last_fetched = Some("hh:mm:ss"),
                         !.has_more_posts =
                             payload.next_story_index < Len(story_ids),
                         !.selected =
                             IF new_posts = <<>> THEN None
                             ELSE Some(Min(UnwrapOr(a1.selected, 0),
                                           Len(new_posts) - 1))]
            IN [w EXCEPT !.app = cache_current_feed(a2)]
       ELSE IF res.err = "Cancelled" THEN [w EXCEPT !.app = a1]
       ELSE IF ShowsFailure(a1.posts)
       THEN [w EXCEPT !.app =
                [a1 EXCEPT !.posts_notice = Some("Failed to load posts")]]
       ELSE [w EXCEPT !.app = a1]

\* Mutant: the threshold count is rounded down.
HasReachedLoadMoreThresholdRoundsDown(a) ==
    LET len == Len(a.posts)
        threshold_count ==
            (len * LOAD_MORE_TRIGGER_NUMERATOR) \div LOAD_MORE_TRIGGER_DENOMINATOR
    IN IF len = 0 THEN a.has_more_posts
       ELSE IF a.selected = None THEN FALSE
       ELSE a.selected[1] + 1 >= Max(threshold_count, 1)

\* App::has_reached_load_more_threshold.
has_reached_load_more_threshold(a) ==
    LET len == Len(a.posts)
        threshold_count ==
            (len * LOAD_MORE_TRIGGER_NUMERATOR + (LOAD_MORE_TRIGGER_DENOMINATOR - 1))
                \div LOAD_MORE_TRIGGER_DENOMINATOR
    IN IF len = 0 THEN a.has_more_posts
       ELSE IF a.selected = None THEN FALSE
       ELSE a.selected[1] + 1 >= Max(threshold_count, 1)

\* App::load_more_posts.
load_more_posts(w) ==
    LET a == w.app
    IN IF a.loading \/ a.comments_open \/ ~a.has_more_posts THEN w
       ELSE IF ~has_reached_load_more_threshold(a) THEN w
       ELSE request_more_posts(w)

\* App::restore_feed_from_cache, when the feed is cached.
restore_feed_from_cache(a, feed) ==
    LET cached == a.feed_cache[feed]
    IN [a EXCEPT !.story_ids = cached.story_ids,
                 !.next_story_index = cached.next_story_index,
                 !.has_more_posts = cached.has_more_posts,
                 !.posts = cached.posts,
                 !.last_fetched = cached.last_fetched,
                 !.posts_notice = None,
                 !.selected =
                     IF cached.posts = <<>> THEN None
                     ELSE Some(Min(UnwrapOr(cached.selected_index, 0),
                                   Len(cached.posts) - 1))]

\* App::clear_feed_state.
clear_feed_state(a) ==
    [a EXCEPT !.story_ids = <<>>,
              !.next_story_index = 0,
              !.has_more_posts = TRUE,
              !.posts = <<>>,
              !.posts_notice = None,
              !.last_fetched = None,
              !.selected = None]

\* Mutant: a feed restored from the cache is not refreshed.
SwitchToFeedRefreshesOnlyUncached(w, next_feed) ==
    IF next_feed = w.app.selected_feed THEN w
    ELSE LET a1 == [cache_current_feed(w.app) EXCEPT !.selected_feed = next_feed]
         IN IF next_feed \in DOMAIN a1.feed_cache
            THEN [w EXCEPT !.app = restore_feed_from_cache(a1, next_feed)]
            ELSE [w EXCEPT !.app = clear_feed_state(a1),
                           !.events = Append(@, Refresh)]

\* App::switch_to_feed.
switch_to_feed(w, next_feed) ==
    IF next_feed = w.app.selected_feed THEN w
    ELSE LET a1 == [cache_current_feed(w.app) EXCEPT !.selected_feed = next_feed]
             a2 == IF next_feed \in DOMAIN a1.feed_cache
                   THEN restore_feed_from_cache(a1, next_feed)
                   ELSE clear_feed_state(a1)
         IN [w EXCEPT !.app = a2, !.events = Append(@, Refresh)]

\* App::switch_feed.
switch_feed(w, delta) ==
    LET count == Len(FeedTabALL)
        current == FeedIndex(w.app.selected_feed)
        next_index == (current + delta + count) % count
    IN switch_to_feed(w, from_index(next_index))

\* Mutant: select_next steps past the last post instead of wrapping.
SelectNextPastTheEnd(a) ==
    LET len == Len(a.posts)
    IN IF len = 0 THEN [a EXCEPT !.selected = None]
       ELSE IF a.selected # None
       THEN [a EXCEPT !.selected = Some(a.selected[1] + 1)]
       ELSE [a EXCEPT !.selected = Some(0)]

\* App::select_next.
select_next(a) ==
    LET len == Len(a.posts)
    IN IF len = 0 THEN [a EXCEPT !.selected = None]
       ELSE IF a.selected # None /\ a.selected[1] + 1 < len
       THEN [a EXCEPT !.selected = Some(a.selected[1] + 1)]
       ELSE [a EXCEPT !.selected = Some(0)]

\* App::select_previous.
select_previous(a) ==
    LET len == Len(a.posts)
    IN IF len = 0 THEN [a EXCEPT !.selected = None]
       ELSE IF a.selected = None \/ a.selected = Some(0)
       THEN [a EXCEPT !.selected = Some(len - 1)]
       ELSE [a EXCEPT !.selected = Some(a.selected[1] - 1)]

\* App::selected_post: the post, or None.
selected_post(a) ==
    IF a.selected = None \/ a.selected[1] >= Len(a.posts) THEN None
    ELSE Some(a.posts[a.selected[1] + 1])

\* Mutant: the comments cache is emptied with the view.
ResetCommentsStateEvictsCache(a) ==
    [a EXCEPT !.comments_open = FALSE,
              !.comments = <<>>,
              !.comments_for_post_id = None,
              !.comments_loading = FALSE,
              !.comments_error = None,
              !.comments_notice = None,
              !.comments_cache = EmptyMap]

\* App::reset_comments_state.
reset_comments_state(a) ==
    [a EXCEPT !.comments_open = FALSE,
              !.comments = <<>>,
              !.comments_for_post_id = None,
              !.comments_loading = FALSE,
              !.comments_error = None,
              !.comments_notice = None]

\* The comment list a fetch returns: it is marked with the number the fetch
\* has among the fetches for its post.
CommentsOfFetch(fetch_no) == <<fetch_no>>

\* The instants of the clock: the start, and the ages just below, at and
\* just above the refresh age of the comments cache.
Instants ==
    {0, COMMENTS_CACHE_REFRESH_AFTER_SECS - 1, COMMENTS_CACHE_REFRESH_AFTER_SECS,
     COMMENTS_CACHE_REFRESH_AFTER_SECS + 1}

\* Mutant: an entry aged exactly the refresh age still counts as fresh.
IsStaleOnlyAbove(cached, time) ==
    time - cached.fetched_at > COMMENTS_CACHE_REFRESH_AFTER_SECS

\* `cached.fetched_at.elapsed() >= Duration::from_secs(..)`.
IsStale(cached, time) ==
    time - cached.fetched_at >= COMMENTS_CACHE_REFRESH_AFTER_SECS

\* The notice load_comments shows for a job.
JobsNotice == "Jobs do not have comment threads."

\* Mutant: a job is loaded like any other post.
IsJobNever(post_type) == FALSE

\* `post_type == PostType::Job`.
IsJob(post_type) == post_type = "Job"

\* Mutant: the list is cleared on every open, cached or not.
DisplayedOnOpenAlwaysEmpty(a, post_id) == <<>>

\* load_comments, the list it displays for a post that is not a job: the
\* clone of the cached comments, or the cleared list.
DisplayedOnOpen(a, post_id) ==
    IF post_id \in DOMAIN a.comments_cache
    THEN a.comments_cache[post_id].comments
    ELSE <<>>

\* Mutant: comments_loading is set also when the cached comments are fresh
\* and no fetch is spawned.
LoadCommentsLoadingWhenFresh(w, post_id, post_type) ==
    LET a == [w.app EXCEPT !.comments_for_post_id = Some(post_id),
                           !.comments_error = None,
                           !.comments_notice = None,
                           !.comments_loading = FALSE]
        is_cached == post_id \in DOMAIN a.comments_cache
        should_refresh ==
            IF is_cached THEN IsStale(a.comments_cache[post_id], w.now) ELSE TRUE
        a1 == [a EXCEPT !.comments = DisplayedOnOpen(a, post_id)]
    IN IF IsJob(post_type)
       THEN [w EXCEPT !.app =
                [a EXCEPT !.comments = <<>>,
                          !.comments_notice = Some(JobsNotice)]]
       ELSE IF ~should_refresh
       THEN [w EXCEPT !.app = [a1 EXCEPT !.comments_loading = TRUE]]
       ELSE [w EXCEPT
               !.app = [a1 EXCEPT !.comments_loading = TRUE],
               !.comments_issued[post_id] = @ + 1,
               !.comment_tasks = Append(@, [post_id |-> post_id,
                                            fetch_no |-> w.comments_issued[post_id] + 1])]

\* App::load_comments.
load_comments(w, post_id, post_type) ==
    LET a == [w.app EXCEPT !.comments_for_post_id = Some(post_id),
                           !.comments_error = None,
                           !.comments_notice = None,
                           !.comments_loading = FALSE]
        is_cached == post_id \in DOMAIN a.comments_cache
        should_refresh ==
            IF is_cached THEN IsStale(a.comments_cache[post_id], w.now) ELSE TRUE
        a1 == [a EXCEPT !.comments = DisplayedOnOpen(a, post_id)]
    IN IF IsJob(post_type)
       THEN [w EXCEPT !.app =
                [a EXCEPT !.comments = <<>>,
                          !.comments_notice = Some(JobsNotice)]]
       ELSE IF ~should_refresh THEN [w EXCEPT !.app = a1]
       ELSE [w EXCEPT
               !.app = [a1 EXCEPT !.comments_loading = TRUE],
               !.comments_issued[post_id] = @ + 1,
               !.comment_tasks = Append(@, [post_id |-> post_id,
                                            fetch_no |-> w.comments_issued[post_id] + 1])]

\* App::open_comments_for_selected.
open_comments_for_selected(w) ==
    LET post == selected_post(w.app)
    IN IF post = None THEN w
       ELSE load_comments([w EXCEPT !.app.comments_open = TRUE],
                          post[1].id, post[1].post_type)

\* App::close_comments_view.
close_comments_view(w) == [w EXCEPT !.app = reset_comments_state(w.app)]

\* Mutant: only the open view is checked, not the post it shows.
IsForOtherViewIgnoresPost(a, post_id) == ~a.comments_open

\* `!self.comments_open || self.comments_for_post_id != Some(post_id)`.
IsForOtherView(a, post_id) ==
    ~a.comments_open \/ a.comments_for_post_id # Some(post_id)

\* Mutant: the cache is never found to hold the post.
ContainsKeyNever(map, key) == FALSE

\* HashMap::contains_key.
contains_key(map, key) == key \in DOMAIN map

\* App::handle_app_event, the arm of AppEvent::LoadCommentsComplete.
handle_load_comments_complete(w, post_id, res) ==
    LET a == w.app
        a1 == [a EXCEPT !.comments_loading = FALSE]
    IN IF IsForOtherView(a, post_id) THEN w
       ELSE IF res.ok
       THEN [w EXCEPT !.app =
                [a1 EXCEPT !.comments_cache = Insert(@, post_id,
                               [comments |-> res.payload, fetched_at |-> w.now]),
                           !.comments = res.payload,
                           !.comments_error = None,
                           !.comments_notice = None]]
       ELSE IF contains_key(a.comments_cache, post_id)
       THEN [w EXCEPT !.app = [a1 EXCEPT !.comments_error = None]]
       ELSE [w EXCEPT !.app =
                [a1 EXCEPT !.comments = <<>>,
                           !.comments_error = Some(res.err),
                           !.comments_notice = None]]

\* App::handle_app_event, the arm of AppEvent::Refresh.
handle_refresh(w) ==
    refresh_posts([w EXCEPT !.app =
        reset_comments_state([w.app EXCEPT !.posts_notice = None])])

(***************************************************************************)
(* The tasks.                                                              *)
(***************************************************************************)
\* What the future of a posts task can resolve to: tokio::select! takes the
\* cancellation branch only when the token is triggered, and either branch
\* when both are ready.  fetch_story_ids may fail; an item whose fetch fails
\* is left out of the page; the item requests complete in any order.
PostsTaskOutcomes(task, triggered) ==
    LET story_ids == StoryIdsOf(task.feed)
        first_index == Min(Len(story_ids), POSTS_PAGE_SIZE)
        page_ids == IF task.mode = "Replace"
                    THEN SubSeq(story_ids, 1, first_index)
                    ELSE task.page_ids
        pages   == {OkOf([mode |-> task.mode,
                          story_ids |-> IF task.mode = "Replace"
                                        THEN Some(story_ids) ELSE None,
                          items |-> fetch_items_by_ids(page_ids, failing, arrival),
                          next_story_index |-> IF task.mode = "Replace"
                                               THEN first_index
                                               ELSE task.next_story_index]) :
                      failing \in SUBSET (FlakyIds \cap Range(page_ids)),
                      arrival \in CompletionOrders(Len(page_ids))}
    IN (IF task.cancel_token \in triggered THEN {ErrOf("Cancelled")} ELSE {})
       \cup (IF task.mode = "Replace" THEN {ErrOf("network error")} ELSE {})
       \cup pages

\* What the future of a comment task can resolve to.
CommentTaskOutcomes(task) ==
    {OkOf(CommentsOfFetch(task.fetch_no)), ErrOf("network error")}

(***************************************************************************)
(* The event loop: one action per event handled, per key and per task.     *)
(***************************************************************************)
RECURSIVE TotalIssued(_, _)

\* The requests asked for (a queued Refresh begins one) or begun, and not
\* yet handled.
Unhandled(w) ==
    Len(w.posts_tasks)
    + Cardinality({i \in DOMAIN w.events :
                      w.events[i].type \in {"Refresh", "PostsFetched"}})

\* The number of comment fetches spawned so far.
TotalIssued(issued, ids) ==
    IF ids = {} THEN 0
    ELSE LET id == CHOOSE id \in ids : TRUE
         IN issued[id] + TotalIssued(issued, ids \ {id})

WithinBounds(w) ==
    /\ Unhandled(w) <= MaxInFlight
    /\ TotalIssued(w.comments_issued, StoryIds) <= MaxCommentFetches

\* The step that leaves the world w behind.
Commit(w) ==
    /\ WithinBounds(w)
    /\ app' = w.app
    /\ events' = w.events
    /\ posts_tasks' = w.posts_tasks
    /\ cancelled' = w.cancelled
    /\ comment_tasks' = w.comment_tasks
    /\ now' = w.now
    /\ comments_issued' = w.comments_issued
    /\ id_reused' = w.id_reused
    /\ last_handled' = w.last_handled
    /\ UNCHANGED pvars
    /\ UNCHANGED nvars
    /\ UNCHANGED bvars

\* The world once the event at the head of the channel has been received.
Received == [World EXCEPT !.events = Tail(@)]

HandleRefresh ==
    /\ events # <<>>
    /\ Head(events).type = "Refresh"
    /\ Commit([handle_refresh(Received) EXCEPT
                  !.last_handled = [type |-> "Refresh", outcome |-> "begun"]])

\* What handle_posts_fetched makes of an event.
PostsOutcome(a, ev) ==
    IF IsSuperseded(a.active_posts_request_id, ev.request_id) THEN "superseded"
    ELSE IF ev.result.ok THEN "applied"
    ELSE IF ev.result.err = "Cancelled" THEN "cancelled"
    ELSE "failed"

HandlePostsFetched ==
    /\ events # <<>>
    /\ Head(events).type = "PostsFetched"
    /\ LET ev == Head(events)
       IN Commit([handle_posts_fetched(Received, ev.request_id, ev.result) EXCEPT
                     !.last_handled = [type |-> "PostsFetched",
                                       request_id |-> ev.request_id,
                                       ok |-> ev.result.ok,
                                       outcome |-> PostsOutcome(app, ev)]])

\* What the LoadCommentsComplete arm makes of an event.
CommentsOutcome(a, ev) ==
    IF IsForOtherView(a, ev.post_id) THEN "dropped"
    ELSE IF ev.result.ok THEN "applied"
    ELSE "failed"

HandleLoadCommentsComplete ==
    /\ events # <<>>
    /\ Head(events).type = "LoadCommentsComplete"
    /\ LET ev == Head(events)
       IN Commit([handle_load_comments_complete(Received, ev.post_id, ev.result)
                  EXCEPT !.last_handled = [type |-> "LoadCommentsComplete",
                                           post_id |-> ev.post_id,
                                           ok |-> ev.result.ok,
                                           outcome |-> CommentsOutcome(app, ev)]])

\* A posts task resolves and send_async sends its event.
PostsTaskCompletes ==
    \E i \in DOMAIN posts_tasks :
      \E res \in PostsTaskOutcomes(posts_tasks[i], cancelled) :
        Commit([World EXCEPT
                  !.events = Append(@, PostsFetched(posts_tasks[i].request_id, res)),
                  !.posts_tasks = RemoveAt(@, i),
                  !.cancelled = @ \ {posts_tasks[i].cancel_token}])

\* A comment task resolves and send_async sends its event.
CommentTaskCompletes ==
    \E i \in DOMAIN comment_tasks :
      \E res \in CommentTaskOutcomes(comment_tasks[i]) :
        Commit([World EXCEPT
                  !.events = Append(@, LoadCommentsComplete(
                                           comment_tasks[i].post_id, res)),
                  !.comment_tasks = RemoveAt(@, i)])

\* GlobalKeyAction::Refresh.
KeyRefresh ==
    /\ Commit([World EXCEPT !.events = Append(@, Refresh)])

\* FeedsKeyAction::SelectNext and SelectPrevious.
KeySelectNextFeed ==
    /\ Commit(switch_feed(World, 1))

KeySelectPreviousFeed ==
    /\ Commit(switch_feed(World, -1))

\* PostsKeyAction::SelectNextAndLoadMore.
KeySelectNextAndLoadMore ==
    /\ Commit(load_more_posts([World EXCEPT !.app = select_next(app)]))

\* PostsKeyAction::SelectPrevious.
KeySelectPrevious ==
    /\ Commit([World EXCEPT !.app = select_previous(app)])

\* PostsKeyAction::OpenComments.
KeyOpenComments ==
    /\ Commit(open_comments_for_selected(World))

\* PostsKeyAction::CloseComments and CommentsKeyAction::Close, both mapped
\* only while the comment view is open.
KeyCloseComments ==
    /\ app.comments_open
    /\ Commit(close_comments_view(World))

\* Time passes, up to one of the instants of the model.
TimePasses ==
    \E instant \in Instants :
        /\ instant > now
        /\ Commit([World EXCEPT !.now = instant])

\* The builder is not running.
BuilderIdle ==
    /\ post_kids = <<>>
    /\ items = EmptyMap
    /\ net_fail = {}
    /\ concurrency = DEFAULT_CONCURRENCY
    /\ limit = 0
    /\ pc = "idle"
    /\ root_kids = <<>>
    /\ pending = <<>>
    /\ scheduled_ids = {}
    /\ failed_ids = {}
    /\ items_by_id = EmptyMap
    /\ batch = <<>>
    /\ fetched = <<>>
    /\ result = Pending
    /\ exit_path = "none"
    /\ requests = <<>>

InitApp == AppStart /\ BuilderIdle

\* The posts stream of the first feed: refresh, selection and load-more,
\* with the comment view left closed.
NextApp ==
    \/ HandleRefresh
    \/ HandlePostsFetched
    \/ PostsTaskCompletes
    \/ KeyRefresh
    \/ KeySelectNextAndLoadMore
    \/ KeySelectPrevious

SpecApp == InitApp /\ [][NextApp]_vars

\* The comments stream over the posts of the first feed, loaded by the
\* refresh that App::run asks for: the comment view is opened and closed,
\* comment tasks resolve, time passes.
NextComments ==
    \/ HandleRefresh
    \/ HandlePostsFetched
    \/ PostsTaskCompletes
    \/ KeySelectNextAndLoadMore
    \/ KeyOpenComments
    \/ KeyCloseComments
    \/ HandleLoadCommentsComplete
    \/ CommentTaskCompletes
    \/ TimePasses

SpecComments == InitApp /\ [][NextComments]_vars

(***************************************************************************)
(* The comments cache under refreshes of the posts: the comment view of    *)
(* the first post, and GlobalKeyAction::Refresh pressed once the posts     *)
(* have settled.                                                           *)
(***************************************************************************)
\* GlobalKeyAction::Refresh, pressed while no event and no posts task is
\* pending.
KeyRefreshWhenSettled ==
    /\ events = <<>>
    /\ posts_tasks = <<>>
    /\ KeyRefresh

NextCache ==
    \/ HandleRefresh
    \/ HandlePostsFetched
    \/ PostsTaskCompletes
    \/ KeyRefreshWhenSettled
    \/ KeyOpenComments
    \/ KeyCloseComments
    \/ HandleLoadCommentsComplete
    \/ CommentTaskCompletes
    \/ TimePasses

SpecCache == InitApp /\ [][NextCache]_vars

(***************************************************************************)
(* The feed tabs: switching between the feeds and moving the selection,    *)
(* with the refreshes the switches ask for.                                *)
(***************************************************************************)
NextFeeds ==
    \/ HandleRefresh
    \/ HandlePostsFetched
    \/ PostsTaskCompletes
    \/ KeySelectNextFeed
    \/ KeySelectPrevious

SpecFeeds == InitApp /\ [][NextFeeds]_vars

(***************************************************************************)
(* Loading more posts: has_reached_load_more_threshold and load_more_posts *)
(* applied to lists of up to MaxPosts posts, with every selection, while a *)
(* refresh is or is not running, the comment view is or is not open, and   *)
(* the feed has or has not more stories.                                   *)
(***************************************************************************)
\* Largest number of posts loaded at the start.
MaxPosts == 8

\* The ids of the first n stories of the feed as it was fetched: a job, then
\* stories.
LoadedIds(n) == [i \in 1..n |-> IF i = 1 THEN 2 ELSE 10 + i]

\* The posts made of the first n stories.
LoadedPosts(n) ==
    posts_from_items([i \in 1..n |-> StoryItem(LoadedIds(n)[i])])

\* The state once n posts of the selected feed have been loaded, the post
\* at sel (if any) is selected, has_more says whether the feed has one more
\* story, comments_open whether the comment view was opened on the job, and
\* refreshing whether GlobalKeyAction::Refresh has been handled since.
InitLoadMore ==
    \E n \in 0..MaxPosts, has_more \in BOOLEAN, refreshing \in BOOLEAN,
       comments_open \in BOOLEAN :
      \E sel \in {None} \cup {Some(i) : i \in 0..(n - 1)} :
        /\ (n = 0) => (sel = None /\ ~comments_open)
        /\ (n > 0) => sel # None
        /\ app = [AppNew EXCEPT
                     !.story_ids = LoadedIds(IF has_more THEN n + 1 ELSE n),
                     !.next_story_index = n,
                     !.has_more_posts = has_more,
                     !.posts = LoadedPosts(n),
                     !.selected = sel,
                     !.last_fetched = IF n = 0 THEN None ELSE Some("hh:mm"),
                     !.next_posts_request_id = IF refreshing THEN 2 ELSE 1,
                     !.active_posts_request_id =
                         IF refreshing THEN Some(2) ELSE None,
                     !.posts_request_cancel =
                         IF refreshing THEN Some(1) ELSE None,
                     !.loading = refreshing,
                     !.comments_open = comments_open,
                     !.comments_for_post_id =
                         IF comments_open THEN Some(LoadedIds(n)[1]) ELSE None,
                     !.comments_notice =
                         IF comments_open THEN Some(JobsNotice) ELSE None]
        /\ events = <<>>
        /\ posts_tasks = IF refreshing
                         THEN <<PostsTask(2, 1, "Replace", "Top", <<>>, 0)>>
                         ELSE <<>>
        /\ cancelled = {}
        /\ comment_tasks = <<>>
        /\ now = 0
        /\ comments_issued = [id \in StoryIds |-> 0]
        /\ id_reused = FALSE
        /\ last_handled = NothingHandled
        /\ PaneNew
        /\ NavIdle
        /\ BuilderIdle

NextLoadMore ==
    \/ KeySelectNextAndLoadMore
    \/ KeySelectPrevious
    \/ PostsTaskCompletes
    \/ HandlePostsFetched

SpecLoadMore == InitLoadMore /\ [][NextLoadMore]_vars

(***************************************************************************)
(* The item tree as the source holds it, for the statements below.         *)
(***************************************************************************)
IsRoot(id) == \E i \in 1..Len(post_kids) : post_kids[i] = id

\* The item whose kids hold id (PostId for a root), and that child-id list.
ParentId(id) ==
    IF IsRoot(id) THEN PostId
    ELSE CHOOSE p \in DOMAIN items : id \in Range(items[p].kids)

ParentKids(id) == IF IsRoot(id) THEN post_kids ELSE items[ParentId(id)].kids

IsLastOfParent(id) == ParentKids(id)[Len(ParentKids(id))] = id

\* The ancestors of id from its root down, id itself last.
RECURSIVE AncestorChain(_)
AncestorChain(id) ==
    IF IsRoot(id) THEN <<id>> ELSE Append(AncestorChain(ParentId(id)), id)

\* A node that is shown: kind comment, not dead, not deleted, text left
\* after cleaning.
Shown(item) ==
    /\ item.kind = "comment"
    /\ ~item.dead
    /\ ~item.deleted
    /\ clean_comment_text(item.text) # <<>>

\* The pre-order depth-first sequence of the shown nodes of the forest
\* tree/kids, the subtrees of the ids in fail left out; each with its depth
\* and its sibling flags in that forest.
RECURSIVE ForestOrder(_, _, _, _, _, _)
ForestOrder(tree, fail, kids, k, depth, anc) ==
    IF k > Len(kids) THEN <<>>
    ELSE LET id == kids[k]
             here == [id |-> id, depth |-> depth,
                      ancestor_has_next_sibling |-> anc,
                      is_last_sibling |-> (k = Len(kids))]
         IN (IF id \in fail THEN <<>>
             ELSE (IF Shown(tree[id]) THEN <<here>> ELSE <<>>)
                  \o ForestOrder(tree, fail, tree[id].kids, 1, depth + 1,
                                 Append(anc, k # Len(kids))))
            \o ForestOrder(tree, fail, kids, k + 1, depth, anc)

IdsOf(nodes) == [i \in 1..Len(nodes) |-> nodes[i].id]

IdAndDepth(nodes) ==
    [i \in 1..Len(nodes) |-> [id |-> nodes[i].id, depth |-> nodes[i].depth]]

Position(nodes) ==
    [i \in 1..Len(nodes) |->
        [id |-> nodes[i].id, depth |-> nodes[i].depth,
         ancestor_has_next_sibling |-> nodes[i].ancestor_has_next_sibling,
         is_last_sibling |-> nodes[i].is_last_sibling]]

Returned == pc = "done" /\ result.kind = "ok"

\* The tree with the failing ids taken out of every child-id list.
WithoutFailing(kids) == SelectSeq(kids, LAMBDA id : id \notin net_fail)

ItemsWithoutFailing ==
    [id \in DOMAIN items \ net_fail |->
        [items[id] EXCEPT !.kids = WithoutFailing(@)]]

\* The scenario of spec.md section 8: post 1 has children [10, 20], item 10
\* has the child [11], all three are comments with text, nothing fails.
ScenarioTree ==
    /\ post_kids = <<10, 20>>
    /\ DOMAIN items = {10, 11, 20}
    /\ items[10].kids = <<11>>
    /\ items[11].kids = <<>>
    /\ items[20].kids = <<>>
    /\ net_fail = {}
    /\ \A id \in DOMAIN items : Shown(items[id])

AllRequested == Range(Flatten(requests))

(***************************************************************************)
(* Claims about fetch_comments, checked under SpecBuild.                   *)
(***************************************************************************)

\* C1: for every tree, every set of failing ids and every limit >= 1, the
\* nodes fetch_comments returns are exactly the first `limit` entries of the
\* pre-order depth-first sequence of the shown nodes, the subtrees of the
\* failing ids left out; never more than `limit` nodes, counted over the
\* whole forest.
C1_PreorderPrefix ==
    (Returned /\ limit >= 1) =>
        /\ IdsOf(result.comments)
             = Take(IdsOf(ForestOrder(items, net_fail, post_kids, 1, 0, <<>>)), limit)
        /\ Len(result.comments) <= limit

\* C1 witness: a run cut at limit 2 inside the first root's subtree, a later
\* shown root left out.
C1_Witness ==
    /\ Returned
    /\ limit = 2
    /\ Len(result.comments) = 2
    /\ result.comments[2].depth = 1
    /\ Len(ForestOrder(items, net_fail, post_kids, 1, 0, <<>>)) = 3
    /\ Len(post_kids) = 2

\* C3 as stated: no failing id and no descendant of one is in the output,
\* and the output is exactly what the tree without the failing ids in any
\* child-id list gives, sibling flags included.
C3_AsIfAbsent ==
    Returned =>
        /\ \A i \in 1..Len(result.comments) :
             Range(AncestorChain(result.comments[i].id)) \cap net_fail = {}
        /\ Position(result.comments)
             = Take(ForestOrder(ItemsWithoutFailing, {}, WithoutFailing(post_kids),
                                1, 0, <<>>), limit)

\* C3 amended: no failing id and no descendant of one is in the output, and
\* the output holds the same nodes at the same depths in the same order as
\* the tree without the failing ids gives (the sibling flags still count the
\* failing ids: C4).
C3_PrunesOnlySubtree ==
    Returned =>
        /\ \A i \in 1..Len(result.comments) :
             Range(AncestorChain(result.comments[i].id)) \cap net_fail = {}
        /\ IdAndDepth(result.comments)
             = IdAndDepth(Take(ForestOrder(ItemsWithoutFailing, {},
                                           WithoutFailing(post_kids), 1, 0, <<>>),
                               limit))

\* C3 witness: a failing id with a child the source could deliver, and a
\* sibling of the failing id in the output.
C3_Witness ==
    /\ Returned
    /\ \E f \in net_fail :
         /\ items[f].kids # <<>>
         /\ Range(items[f].kids) \cap net_fail = {}
         /\ \E i \in 1..Len(result.comments) :
              /\ result.comments[i].id \in Range(ParentKids(f))
              /\ result.comments[i].id # f

\* C4: every output node's ancestor vector is as long as its depth (0 and
\* empty for a root child), and is_last_sibling says whether the node's id
\* is the last of its parent's child-id list, failing and invisible later
\* siblings included.
C4_DepthAndLastSibling ==
    Returned =>
        \A i \in 1..Len(result.comments) :
            LET c == result.comments[i]
            IN /\ Len(c.ancestor_has_next_sibling) = c.depth
               /\ IsRoot(c.id) => (c.depth = 0 /\ c.ancestor_has_next_sibling = <<>>)
               /\ c.is_last_sibling <=> IsLastOfParent(c.id)

\* C4 witness: an output node that is not the last of its parent's list
\* although every later sibling is failing or not shown.
C4_Witness ==
    /\ Returned
    /\ \E i \in 1..Len(result.comments) :
         LET c == result.comments[i]
         IN /\ ~c.is_last_sibling
            /\ \A j \in 1..Len(result.comments) :
                 j # i => result.comments[j].id \notin Range(ParentKids(c.id))

\* C5: entry i of an output node's ancestor vector is true iff the node's
\* ancestor at depth i is not the last of its parent's child-id list; and
\* the scenario with limit 10 gives (Hi, 0, [], not last),
\* (Reply, 1, [true], last), (Second, 0, [], last).
C5_AncestorFlags ==
    /\ Returned =>
         \A i \in 1..Len(result.comments) :
            LET c == result.comments[i]
                chain == AncestorChain(c.id)
            IN /\ c.depth = Len(chain) - 1
               /\ \A d \in 1..c.depth :
                    c.ancestor_has_next_sibling[d] <=> ~IsLastOfParent(chain[d])
    /\ (Returned /\ ScenarioTree /\ limit = ScenarioLimit) =>
         /\ Len(result.comments) = 3
         /\ [i \in 1..3 |-> result.comments[i].text]
              = << <<"Hi">>, <<"Reply">>, <<"Second">> >>
         /\ Position(result.comments)
              = << [id |-> 10, depth |-> 0, ancestor_has_next_sibling |-> <<>>,
                    is_last_sibling |-> FALSE],
                   [id |-> 11, depth |-> 1, ancestor_has_next_sibling |-> <<TRUE>>,
                    is_last_sibling |-> TRUE],
                   [id |-> 20, depth |-> 0, ancestor_has_next_sibling |-> <<>>,
                    is_last_sibling |-> TRUE] >>

\* C5 witness: the scenario has returned with limit 10.
C5_Witness ==
    /\ Returned
    /\ ScenarioTree
    /\ limit = ScenarioLimit
    /\ Len(result.comments) = 3

\* C6: with limit 0 fetch_comments returns the empty sequence and requests
\* nothing, neither the post nor a comment item.
C6_LimitZeroNoFetch ==
    limit = 0 =>
        /\ requests = <<>>
        /\ pc = "done" => result = Ok(<<>>)

\* C6 witness: a call with limit 0 on a post that has comments has returned.
C6_Witness ==
    /\ limit = 0
    /\ pc = "done"
    /\ post_kids # <<>>

\* C7 as stated: in the scenario with limit 1 exactly one node, Hi, is
\* returned and neither item 20 nor item 11 is ever requested.
C7_NoFetchOf20Or11 ==
    (ScenarioTree /\ limit = 1) =>
        /\ Returned =>
             /\ Len(result.comments) = 1
             /\ result.comments[1].text = <<"Hi">>
        /\ 20 \notin AllRequested
        /\ 11 \notin AllRequested

\* C7 amended: in the scenario with limit 1 exactly one node, Hi, is
\* returned and item 11 is never requested; item 20 is requested, in the
\* one round that also requests item 10.
C7_NoFetchOf11 ==
    (ScenarioTree /\ limit = 1) =>
        /\ 11 \notin AllRequested
        /\ Returned =>
             /\ Len(result.comments) = 1
             /\ result.comments[1].text = <<"Hi">>
             /\ requests = << <<PostId>>, <<10, 20>> >>

\* C7 witness: the scenario has returned with limit 1.
C7_Witness ==
    /\ ScenarioTree
    /\ limit = 1
    /\ Returned

(***************************************************************************)
(* The request lifecycle of App.                                           *)
(***************************************************************************)
\* The step is the event loop handling the PostsFetched event at the head
\* of the channel.
HandlesPostsFetched ==
    /\ events # <<>>
    /\ Head(events).type = "PostsFetched"
    /\ events' = Tail(events)

\* The posts tasks whose cancellation token has not been triggered.
LiveTasks == {i \in DOMAIN posts_tasks : posts_tasks[i].cancel_token \notin cancelled}

\* The step begins a posts request: a posts task is spawned.
BeginsPostsRequest == Len(posts_tasks') = Len(posts_tasks) + 1

\* The fetch a comment list is of.
FetchOf(comment_list) == comment_list[1]

\* C2: handle_posts_fetched(request_id, result) with a request_id that
\* differs from the active posts request id changes no field of App,
\* whether the result is a success or an error.
C2_SupersededResultChangesNothing ==
    [][(HandlesPostsFetched
        /\ app.active_posts_request_id # Some(Head(events).request_id))
       => app' = app]_vars

\* C2 witness: the successful result of request 1 has been handled and
\* dropped while request 2 was the active one, and request 2 still is.
C2_Witness ==
    /\ last_handled.type = "PostsFetched"
    /\ last_handled.outcome = "superseded"
    /\ last_handled.ok
    /\ last_handled.request_id = 1
    /\ app.active_posts_request_id = Some(2)
    /\ app.loading

C8_AtMostOneLiveWhileIdsDistinct ==
    ~id_reused =>
        /\ Cardinality(LiveTasks) <= 1
        /\ \A i \in LiveTasks :
             /\ app.posts_request_cancel = Some(posts_tasks[i].cancel_token)
             /\ app.active_posts_request_id = Some(posts_tasks[i].request_id)

\* C8: two posts tasks run, the older with its token triggered, and no id
\* has been reused.
C8_Witness ==
    /\ ~id_reused
    /\ Len(posts_tasks) = 2
    /\ Cardinality(LiveTasks) = 1

\* C9 as stated: once the result of the most recently issued comment fetch
\* for a post is in the cache, no result of an earlier fetch for that post
\* replaces the cache entry or the displayed nodes.
C9_OlderResultNeverApplied ==
    [][\A p \in DOMAIN app.comments_cache :
         FetchOf(app.comments_cache[p].comments) = comments_issued[p] =>
           /\ FetchOf(app'.comments_cache[p].comments)
                >= FetchOf(app.comments_cache[p].comments)
           /\ (app'.comments_for_post_id = Some(p) /\ app'.comments # <<>>) =>
                FetchOf(app'.comments) >= FetchOf(app.comments_cache[p].comments)]_vars

\* C10: the ids begin_posts_request issues are never 0: the first is 1,
\* each later one is the previous plus 1, and after the largest value of
\* the counter comes 1.
C10_RequestIdsWrapToOne ==
    [][/\ \A id \in UnhandledIds(World') : id \in 1..MaxRequestId
       /\ app'.active_posts_request_id # Some(0)
       /\ BeginsPostsRequest =>
            /\ app'.next_posts_request_id =
                 IF app.next_posts_request_id = MaxRequestId
                 THEN 1 ELSE app.next_posts_request_id + 1
            /\ posts_tasks'[Len(posts_tasks')].request_id = app'.next_posts_request_id
            /\ app'.active_posts_request_id = Some(app'.next_posts_request_id)]_vars

\* C10 witness: the counter has wrapped: the request with the largest id is
\* still running and the request begun after it has id 1.
C10_Witness ==
    /\ Len(posts_tasks) = 2
    /\ posts_tasks[1].request_id = MaxRequestId
    /\ posts_tasks[2].request_id = 1
    /\ app.next_posts_request_id = 1

\* The step is a posts task resolving to the outcome Cancelled.
ReportsCancelled ==
    /\ Len(events') = Len(events) + 1
    /\ events'[Len(events')].type = "PostsFetched"
    /\ events'[Len(events')].result = ErrOf("Cancelled")

C11_CancelledChangesNothingWhileIdsDistinct ==
    [][/\ ReportsCancelled =>
            \E i \in DOMAIN posts_tasks :
                /\ posts_tasks[i].cancel_token \in cancelled
                /\ posts_tasks[i].request_id = events'[Len(events')].request_id
       /\ (HandlesPostsFetched /\ Head(events).result = ErrOf("Cancelled")
           /\ ~id_reused)
            => app' = app]_vars

\* The step is open_comments_for_selected with a post selected.
OpensComments ==
    /\ selected_post(app) # None
    /\ KeyOpenComments

\* The post the step opens the comment view for.
OpenedPost == selected_post(app)[1]

\* The step spawns one comment task and leaves the others alone.
IssuesCommentFetch ==
    /\ Len(comment_tasks') = Len(comment_tasks) + 1
    /\ SubSeq(comment_tasks', 1, Len(comment_tasks)) = comment_tasks

\* The age of the cache entry of a post.
AgeOfEntry(post_id) == now - app.comments_cache[post_id].fetched_at

\* C12: opening the comment view for a post that is not a job issues a
\* comment fetch exactly when the comments cache has no entry for the post
\* or the entry is at least 90 seconds old; with a younger entry no fetch
\* is issued and comments_loading is false after the open.
C12_FetchIffAbsentOrStale ==
    [][(OpensComments /\ OpenedPost.post_type # "Job") =>
          LET post_id == OpenedPost.id
              has_entry == post_id \in DOMAIN app.comments_cache
          IN /\ IssuesCommentFetch <=>
                   (~has_entry
                    \/ AgeOfEntry(post_id) >= COMMENTS_CACHE_REFRESH_AFTER_SECS)
             /\ ~IssuesCommentFetch => comment_tasks' = comment_tasks
             /\ (has_entry
                 /\ AgeOfEntry(post_id) < COMMENTS_CACHE_REFRESH_AFTER_SECS)
                  => ~app'.comments_loading]_vars

\* A result for the displayed post was dropped while the view was away, and
\* the view has since been opened on the post with an entry 89 seconds old:
\* nothing was fetched and the view is not loading.
C12_Witness ==
    \E post_id \in StoryIds :
        /\ app.comments_open
        /\ app.comments_for_post_id = Some(post_id)
        /\ post_id \in DOMAIN app.comments_cache
        /\ AgeOfEntry(post_id) = COMMENTS_CACHE_REFRESH_AFTER_SECS - 1
        /\ last_handled.type = "LoadCommentsComplete"
        /\ last_handled.post_id = post_id
        /\ last_handled.outcome = "dropped"
        /\ ~app.comments_loading
        /\ comment_tasks = <<>>

\* The task the step spawns is a fetch for the post.
IssuesOneFetchFor(post_id) ==
    /\ IssuesCommentFetch
    /\ comment_tasks'[Len(comment_tasks')].post_id = post_id

\* What C13 says of the open of a post that has a cache entry.
OpenWithEntry(post_id) ==
    /\ app'.comments = app.comments_cache[post_id].comments
    /\ AgeOfEntry(post_id) >= COMMENTS_CACHE_REFRESH_AFTER_SECS
         => /\ app'.comments_loading
            /\ IssuesOneFetchFor(post_id)

\* What C13 says of the open of a post that has no cache entry.
OpenWithoutEntry ==
    /\ app'.comments = <<>>
    /\ app'.comments_loading

\* C13: on opening the comment view for a post with a cache entry the
\* displayed comments are the cached ones at once, whatever the age of the
\* entry; with a stale entry comments_loading is true and exactly one fetch
\* is issued; with no entry the displayed list is empty and comments_loading
\* is true.
C13_OpenShowsCachedOrLoads ==
    [][OpensComments =>
          IF OpenedPost.id \in DOMAIN app.comments_cache
          THEN OpenWithEntry(OpenedPost.id)
          ELSE OpenWithoutEntry]_vars

\* C13, what does hold: the same, where the post without an entry is not a
\* job; the open of a job leaves comments_loading false.
C13_OpenShowsCachedOrLoadsUnlessJob ==
    [][OpensComments =>
          IF OpenedPost.id \in DOMAIN app.comments_cache
          THEN OpenWithEntry(OpenedPost.id)
          ELSE /\ app'.comments = <<>>
               /\ OpenedPost.post_type # "Job" => app'.comments_loading]_vars

\* The view was opened on a post whose entry was 91 seconds old: the cached
\* comments are displayed, the view is loading and one fetch is running.
C13_Witness ==
    \E post_id \in StoryIds :
        /\ app.comments_open
        /\ app.comments_for_post_id = Some(post_id)
        /\ post_id \in DOMAIN app.comments_cache
        /\ app.comments_cache[post_id].fetched_at = 0
        /\ now = COMMENTS_CACHE_REFRESH_AFTER_SECS + 1
        /\ app.comments = app.comments_cache[post_id].comments
        /\ app.comments_loading
        /\ Len(comment_tasks) = 1
        /\ comment_tasks[1].post_id = post_id
        /\ events = <<>>

\* The step is the event loop handling the LoadCommentsComplete event at
\* the head of the channel.
HandlesLoadCommentsComplete ==
    /\ events # <<>>
    /\ Head(events).type = "LoadCommentsComplete"
    /\ events' = Tail(events)

\* The comment view is open on the post.
Displays(post_id) ==
    /\ app.comments_open
    /\ app.comments_for_post_id = Some(post_id)

\* C14: when a comment fetch for the displayed post fails and the post has
\* a cache entry, the displayed comments and the entry are left unchanged,
\* comments_loading becomes false and no error is set; when the post has no
\* entry, the displayed list is emptied and the error is set.
C14_FailedFetchKeepsCached ==
    [][(/\ HandlesLoadCommentsComplete
        /\ ~Head(events).result.ok
        /\ Displays(Head(events).post_id)) =>
          LET post_id == Head(events).post_id
          IN IF post_id \in DOMAIN app.comments_cache
             THEN /\ app'.comments = app.comments
                  /\ app'.comments_cache = app.comments_cache
                  /\ ~app'.comments_loading
                  /\ app'.comments_error = None
             ELSE /\ app'.comments = <<>>
                  /\ app'.comments_error = Some(Head(events).result.err)]_vars

\* The refresh of a stale entry failed: the cached comments are displayed,
\* the view is not loading and shows no error.
C14_Witness ==
    \E post_id \in StoryIds :
        /\ last_handled.type = "LoadCommentsComplete"
        /\ last_handled.post_id = post_id
        /\ last_handled.outcome = "failed"
        /\ app.comments_open
        /\ app.comments_for_post_id = Some(post_id)
        /\ post_id \in DOMAIN app.comments_cache
        /\ app.comments = app.comments_cache[post_id].comments
        /\ app.comments # <<>>
        /\ ~app.comments_loading
        /\ app.comments_error = None
        /\ comments_issued[post_id] = 2
        /\ comment_tasks = <<>>

\* C15: the comments cache changes only when a successful result for a post
\* is applied while the comment view is open on that post, and then the
\* entry of the post and the displayed comments become that result; no
\* other step (a failed result, a result for a post that is not displayed,
\* closing the view, refreshing the posts) modifies or removes an entry, so
\* the set of cached post ids never shrinks.
C15_CacheWrittenOnlyByAppliedResult ==
    [][LET ev == Head(events)
           applies == /\ HandlesLoadCommentsComplete
                      /\ ev.result.ok
                      /\ Displays(ev.post_id)
       IN /\ app'.comments_cache # app.comments_cache => applies
          /\ applies =>
               /\ app'.comments_cache =
                      Insert(app.comments_cache, ev.post_id,
                             [comments |-> ev.result.payload, fetched_at |-> now])
               /\ app'.comments = ev.result.payload
          /\ DOMAIN app.comments_cache \subseteq DOMAIN app'.comments_cache]_vars

\* The entry of a post was overwritten by the result of its second fetch,
\* and a refresh of the posts handled since has left it in place.
C15_Witness ==
    \E post_id \in DOMAIN app.comments_cache :
        /\ app.comments_cache[post_id].comments = CommentsOfFetch(2)
        /\ last_handled.type = "Refresh"
        /\ ~app.comments_open

\* C16: opening the comment view for a job shows the fixed notice, empties
\* the displayed comments, leaves comments_loading false and issues no
\* fetch, whether or not the post has a cache entry.
C16_JobShowsNoticeWithoutFetch ==
    [][(OpensComments /\ OpenedPost.post_type = "Job") =>
          /\ app'.comments_notice = Some("Jobs do not have comment threads.")
          /\ app'.comments = <<>>
          /\ ~app'.comments_loading
          /\ comment_tasks' = comment_tasks
          /\ comments_issued' = comments_issued]_vars

\* The comments of a story were displayed when its result was applied, and
\* the view has since been opened on a job: the list is empty, the notice
\* is shown and nothing is loading.
C16_Witness ==
    \E i \in DOMAIN app.posts :
        /\ app.posts[i].post_type = "Job"
        /\ app.comments_open
        /\ app.comments_for_post_id = Some(app.posts[i].id)
        /\ app.comments_notice = Some("Jobs do not have comment threads.")
        /\ app.comments = <<>>
        /\ ~app.comments_loading
        /\ last_handled.type = "LoadCommentsComplete"
        /\ last_handled.outcome = "applied"
        /\ comment_tasks = <<>>

\* The live state of the selected feed, as CachedFeed holds it.
LiveFeedState(a) ==
    [story_ids |-> a.story_ids,
     next_story_index |-> a.next_story_index,
     has_more_posts |-> a.has_more_posts,
     posts |-> a.posts,
     selected_index |-> a.selected,
     last_fetched |-> a.last_fetched]

\* The step switches the selected feed.
SwitchesFeed == app'.selected_feed # app.selected_feed

\* The feed the step switches to has an entry in the feed cache.
SwitchesToCachedFeed ==
    /\ SwitchesFeed
    /\ app'.selected_feed \in DOMAIN app.feed_cache

\* The step stores the live state under the feed it leaves, and restores
\* the entry of the feed it enters or clears the live state.
StoresAndRestores ==
    LET stored == app.feed_cache[app'.selected_feed]
    IN /\ app.selected_feed \in DOMAIN app'.feed_cache
       /\ app'.feed_cache[app.selected_feed] = LiveFeedState(app)
       /\ IF SwitchesToCachedFeed
          THEN /\ app'.story_ids = stored.story_ids
               /\ app'.next_story_index = stored.next_story_index
               /\ app'.has_more_posts = stored.has_more_posts
               /\ app'.posts = stored.posts
               /\ app'.selected =
                    IF stored.posts = <<>> THEN None
                    ELSE Some(Min(UnwrapOr(stored.selected_index, 0),
                                  Len(stored.posts) - 1))
          ELSE /\ app'.story_ids = <<>>
               /\ app'.next_story_index = 0
               /\ app'.posts = <<>>
               /\ app'.selected = None
               /\ app'.has_more_posts

\* Switching from the selected feed to the next one and back restores the
\* live state.
RoundTripRestores ==
    LET there == switch_feed(World, 1)
        back == switch_to_feed(there, app.selected_feed)
    IN /\ there.app.selected_feed # app.selected_feed
       /\ back.app.selected_feed = app.selected_feed
       /\ LiveFeedState(back.app) = LiveFeedState(app)

\* No step changes the entry of a feed that is not the selected one.
KeepsOtherEntries ==
    \A feed \in DOMAIN app.feed_cache :
        feed # app.selected_feed =>
            /\ feed \in DOMAIN app'.feed_cache
            /\ app'.feed_cache[feed] = app.feed_cache[feed]

\* C17: switch_to_feed from a feed A to another feed B stores the live state
\* of A under A; if B has an entry the live story ids, cursor, has-more
\* flag and posts become the stored ones, with the selection the smaller of
\* the stored one (or 0) and len(posts) - 1, or none when there are no
\* posts; if B has no entry the live state is cleared, with has_more true.
\* Whatever happens in between, the entry of A stays as stored until A is
\* selected again, so that switching A -> B -> A restores the state of A.
C17_SwitchStoresAndRestores ==
    /\ []RoundTripRestores
    /\ [][/\ SwitchesFeed => StoresAndRestores
          /\ KeepsOtherEntries]_vars

\* Top was left with its second post selected, New was visited and its
\* entry stored, and the switch back to Top, whose Refresh is not handled
\* yet, has restored the posts, the cursor and the selection of Top.
C17_Witness ==
    /\ app.selected_feed = "Top"
    /\ DOMAIN app.feed_cache = {"Top", "New"}
    /\ app.feed_cache["New"].posts # <<>>
    /\ LiveFeedState(app) = app.feed_cache["Top"]
    /\ app.selected = Some(1)
    /\ Len(app.posts) = 2
    /\ events = <<Refresh>>
    /\ posts_tasks = <<>>

\* The step is the event loop handling the Refresh event at the head of the
\* channel.
HandlesRefresh ==
    /\ events # <<>>
    /\ Head(events).type = "Refresh"
    /\ events' = Tail(events)

\* The step spawns a task that fetches the first page of the selected feed.
BeginsRefreshOfSelectedFeed ==
    /\ BeginsPostsRequest
    /\ posts_tasks'[Len(posts_tasks')].feed = app.selected_feed
    /\ posts_tasks'[Len(posts_tasks')].mode = "Replace"
    /\ app'.active_posts_request_id =
           Some(posts_tasks'[Len(posts_tasks')].request_id)

\* C18: switching the active feed to a feed that has a cache entry restores
\* the state of that feed without fetching it again: the switch begins no
\* posts request and asks for none, so that no network fetch follows from
\* it.  (A Refresh event is the only thing a switch can leave behind, and
\* handling one always begins a posts request.)
C18_CachedSwitchFetchesNothing ==
    [][SwitchesToCachedFeed =>
          /\ posts_tasks' = posts_tasks
          /\ events' = events]_vars

\* C18, what does hold: the switch to a cached feed restores the state of
\* the feed at once and begins no posts request itself, and it sends a
\* Refresh event; handling a Refresh event begins a posts request for the
\* first page of the selected feed.
C18_CachedSwitchRestoresThenRefreshes ==
    [][/\ SwitchesToCachedFeed =>
             /\ app'.posts = app.feed_cache[app'.selected_feed].posts
             /\ app'.story_ids = app.feed_cache[app'.selected_feed].story_ids
             /\ posts_tasks' = posts_tasks
             /\ app'.active_posts_request_id = app.active_posts_request_id
             /\ events' = Append(events, Refresh)
       /\ HandlesRefresh => BeginsRefreshOfSelectedFeed]_vars

\* Top was restored from its entry after a visit to New, and the Refresh the
\* switch sent has been handled: the posts of Top are displayed while the
\* request that fetches Top again is running.
C18_Witness ==
    /\ app.selected_feed = "Top"
    /\ DOMAIN app.feed_cache = {"Top", "New"}
    /\ app.posts # <<>>
    /\ app.posts = app.feed_cache["Top"].posts
    /\ last_handled.type = "Refresh"
    /\ app.loading
    /\ Len(posts_tasks) = 1
    /\ posts_tasks[1].feed = "Top"
    /\ posts_tasks[1].mode = "Replace"
    /\ app.active_posts_request_id = Some(posts_tasks[1].request_id)
    /\ events = <<>>

\* The smallest k with k * denominator >= numerator: the quotient rounded
\* up.
CeilDiv(numerator, denominator) ==
    CHOOSE k \in 0..numerator :
        /\ k * denominator >= numerator
        /\ (k - 1) * denominator < numerator

\* The selections a list of n posts can be given to the threshold with.
Selections(n) == {None} \cup {Some(i) : i \in 0..(n - 1)}

\* With the posts loaded and any selection, the threshold is reached exactly
\* when there is a selection i with i + 1 >= max(1, ceil(3n/4)).
ThresholdIsThreeQuarters ==
    LET n == Len(app.posts)
    IN n > 0 =>
         \A sel \in Selections(n) :
             has_reached_load_more_threshold([app EXCEPT !.selected = sel])
               <=> /\ sel # None
                   /\ sel[1] + 1 >= Max(1, CeilDiv(3 * n, 4))

\* The step begins a load-more request: it spawns a task that fetches the
\* next page.
BeginsLoadMore ==
    /\ BeginsPostsRequest
    /\ posts_tasks'[Len(posts_tasks')].mode = "Append"

\* C19: with n > 0 posts loaded and the post at index i selected, the
\* load-more threshold is reached exactly when i + 1 >= max(1, ceil(3n/4)),
\* and with no selection it is not reached; load_more_posts begins a
\* load-more request only if the threshold is reached for the selection it
\* is called with, no posts request is loading, the comment view is closed
\* and has_more_posts is true.
C19_LoadMoreOnlyPastThreshold ==
    /\ []ThresholdIsThreeQuarters
    /\ [][BeginsLoadMore =>
             /\ has_reached_load_more_threshold(select_next(app))
             /\ app'.selected = select_next(app).selected
             /\ ~app.loading
             /\ ~app.comments_open
             /\ app.has_more_posts]_vars

\* With eight posts loaded the sixth was selected, which is where the
\* threshold of ceil(24/4) = 6 is first reached, and the request for the
\* next page is running.
C19_Witness ==
    /\ Len(app.posts) = 8
    /\ app.selected = Some(5)
    /\ app.loading
    /\ ~app.comments_open
    /\ Len(posts_tasks) = 1
    /\ posts_tasks[1].mode = "Append"
    /\ app.active_posts_request_id = Some(posts_tasks[1].request_id)

(***************************************************************************)
(* The errors of fetch_comments.                                           *)
(***************************************************************************)
\* fetch_comments has returned and the fetch of the post had succeeded.
ReturnedAfterPost == pc = "done" /\ exit_path # "post_error"

\* Every child of the post is an id whose fetch fails.
EveryRootChildFails ==
    /\ post_kids # <<>>
    /\ Range(post_kids) \subseteq net_fail

\* C20: fetch_comments returns an error only when the fetch of the post
\* fails, which is before any comment item is requested; once the post is
\* fetched, the failure of any number of comment items ends in a successful
\* result that holds none of the failed ids, and when every child of the
\* post fails the result is the empty sequence.
C20_OnlyPostFailureIsAnError ==
    /\ result.kind = "err" =>
         /\ exit_path = "post_error"
         /\ requests = << <<PostId>> >>
         /\ failed_ids = {}
    /\ ReturnedAfterPost =>
         /\ result.kind = "ok"
         /\ Range(IdsOf(result.comments)) \cap (failed_ids \cup net_fail) = {}
    /\ (ReturnedAfterPost /\ limit > 0 /\ EveryRootChildFails) =>
         /\ result = Ok(<<>>)
         /\ failed_ids = Range(post_kids)

\* The post has three children, the fetch of each has failed, and
\* fetch_comments has returned the empty sequence.
C20_Witness ==
    /\ ReturnedAfterPost
    /\ limit > 0
    /\ Len(post_kids) = MaxNodes
    /\ EveryRootChildFails
    /\ failed_ids = Range(post_kids)
    /\ result = Ok(<<>>)

(***************************************************************************)
(* The fetch rounds of fetch_comments.                                     *)
(***************************************************************************)
\* The ids the locals hold as resolved or still to fetch.
Frontier == Range(pending)

\* The step processes the results of a round: it fills the item cache or the
\* failed set, or adds discovered children to the frontier.
ProcessesResults ==
    \/ items_by_id' # items_by_id
    \/ failed_ids' # failed_ids
    \/ pc # "start" /\ Len(pending') > Len(pending)

\* The step takes the ids of a round from the frontier and dispatches them.
DispatchesRound == pc = "loop" /\ pc' = "fetching"

\* Every child of every item fetched so far has been scheduled, and is in
\* the frontier unless it has been taken from it.
ChildrenAreInFrontier ==
    \A id \in DOMAIN items_by_id :
        Range(items_by_id[id].kids) \subseteq
            (Frontier \cup DOMAIN items_by_id \cup failed_ids)

\* C21: within one invocation a round dispatches at most DEFAULT_CONCURRENCY
\* (20, or the value it is scaled to) item requests and no more than that
\* are ever in flight; the results of a round are processed only once no
\* request of the round is in flight; and the ids of a round are taken from
\* the end of the frontier when the children of every item fetched before
\* have been added to it.
C21_RoundsAreBoundedAndSeparate ==
    /\ [](/\ concurrency <= DEFAULT_CONCURRENCY
          /\ Len(batch) <= concurrency
          /\ Cardinality(InFlight) <= concurrency
          /\ \A r \in 2..Len(requests) : Len(requests[r]) <= concurrency
          /\ pc # "fetching" => batch = <<>>)
    /\ [][/\ ProcessesResults =>
               /\ pc = "fetching"
               /\ InFlight = {}
               /\ Len(fetched) = Len(batch)
               /\ {fetched[k][2] : k \in 1..Len(fetched)} = Range(batch)
               /\ Range(batch) \subseteq (DOMAIN items_by_id' \cup failed_ids')
          /\ DispatchesRound =>
               /\ ChildrenAreInFrontier
               /\ batch' # <<>>
               /\ batch' = Reverse(SubSeq(pending, Len(pending) - Len(batch') + 1,
                                          Len(pending)))
               /\ pending' = SubSeq(pending, 1, Len(pending) - Len(batch'))
               /\ fetched' = <<>>]_vars

\* With rounds of two requests, the post has three children: the first round
\* took two of them and has been processed, and the second round, of the one
\* id that was left in the frontier, is in flight.
C21_Witness ==
    /\ concurrency = ScaledConcurrency
    /\ Len(post_kids) = MaxNodes
    /\ Len(requests) = 3
    /\ Len(requests[2]) = ScaledConcurrency
    /\ pc = "fetching"
    /\ Cardinality(InFlight) = 1
    /\ Range(requests[2]) \subseteq (DOMAIN items_by_id \cup failed_ids)

(***************************************************************************)
(* C22: the materialization pass and an id that is not resolved yet.       *)
(***************************************************************************)
\* The ids in the order a pre-order depth-first walk meets them, child-id
\* lists taken from cache: an id that is not in cache has no children there.
RECURSIVE PreOrderIds(_, _, _)
PreOrderIds(cache, kids, k) ==
    IF k > Len(kids) THEN <<>>
    ELSE <<kids[k]>>
         \o (IF kids[k] \in DOMAIN cache
             THEN PreOrderIds(cache, cache[kids[k]].kids, 1)
             ELSE <<>>)
         \o PreOrderIds(cache, kids, k + 1)

WalkOrder == PreOrderIds(items_by_id, root_kids, 1)

Unresolved(id) == id \notin DOMAIN items_by_id /\ id \notin failed_ids

\* The number of visible nodes the walk has collected when it comes to the
\* k-th id of its order.
VisibleBefore(k) ==
    Cardinality({j \in 1..(k - 1) :
                    /\ WalkOrder[j] \in DOMAIN items_by_id
                    /\ Shown(items_by_id[WalkOrder[j]])})

ReachesUnresolvedBeforeLimit ==
    \E k \in 1..Len(WalkOrder) :
        Unresolved(WalkOrder[k]) /\ VisibleBefore(k) < limit

UnresolvedAfterLimit ==
    \E k \in 1..Len(WalkOrder) :
        Unresolved(WalkOrder[k]) /\ VisibleBefore(k) >= limit

PassOverLocals ==
    build_comments_from_cache(root_kids, limit, items_by_id, failed_ids)

\* C22: build_comments_from_cache returns None exactly when the pre-order
\* walk comes to an id that is neither in the cache nor in the failed set
\* before `limit` visible nodes are collected; an unresolved id that comes
\* after the limit-th visible node leaves the pass successful.
C22_NoneIffUnresolvedBeforeLimit ==
    (PassOverLocals = None) <=> ReachesUnresolvedBeforeLimit

\* A pass at the top of the loop that succeeds although an id of the walk is
\* unresolved: the id comes after the limit-th visible node.
C22_Witness ==
    /\ pc = "loop"
    /\ UnresolvedAfterLimit
    /\ ~ReachesUnresolvedBeforeLimit
    /\ PassOverLocals # None
    /\ Len(PassOverLocals[1]) = limit

\* A pass at the top of the loop that returns None.
C22_WitnessNone ==
    /\ pc = "loop"
    /\ ReachesUnresolvedBeforeLimit
    /\ PassOverLocals = None
    /\ items_by_id # <<>>

(***************************************************************************)
(* C23: nodes that are not shown.                                          *)
(***************************************************************************)
\* The pre-order depth-first sequence of every node of the forest tree/kids,
\* shown or not, the subtrees of the ids in fail left out; each with the
\* depth and the sibling flags it has there.
RECURSIVE TreeOrder(_, _, _, _, _, _)
TreeOrder(tree, fail, kids, k, depth, anc) ==
    IF k > Len(kids) THEN <<>>
    ELSE LET id == kids[k]
             here == [id |-> id, depth |-> depth,
                      ancestor_has_next_sibling |-> anc,
                      is_last_sibling |-> (k = Len(kids))]
         IN (IF id \in fail THEN <<>>
             ELSE <<here>>
                  \o TreeOrder(tree, fail, tree[id].kids, 1, depth + 1,
                               Append(anc, k # Len(kids))))
            \o TreeOrder(tree, fail, kids, k + 1, depth, anc)

WholeTreeOrder == TreeOrder(items, net_fail, post_kids, 1, 0, <<>>)

ShownOfWholeTree == SelectSeq(WholeTreeOrder, LAMBDA n : Shown(items[n.id]))

HasHiddenParent(id) == ~IsRoot(id) /\ ~Shown(items[ParentId(id)])

\* The depth id has in the tree with every node present.
DepthInTree(id) == Len(AncestorChain(id)) - 1

\* C23: a node that is not a comment, is dead, is deleted or has no text
\* left after cleaning is not in the output; its children are in the output
\* where the walk of the whole tree has them, with the depth and the
\* ancestor vector they have with the node present: one more than the
\* node's depth.
C23_HiddenNodeKeepsItsPlace ==
    (Returned /\ limit >= 1) =>
        /\ \A i \in 1..Len(result.comments) : Shown(items[result.comments[i].id])
        /\ Position(result.comments) = Take(ShownOfWholeTree, limit)
        /\ \A i \in 1..Len(result.comments) :
             LET c == result.comments[i]
             IN HasHiddenParent(c.id) =>
                  /\ c.depth = DepthInTree(ParentId(c.id)) + 1
                  /\ Len(c.ancestor_has_next_sibling) = DepthInTree(ParentId(c.id)) + 1

\* C23 witness: the output holds a child of a hidden first root at depth 1,
\* its vector saying that the hidden root has a next sibling, and then that
\* sibling.
C23_Witness ==
    /\ Returned
    /\ Len(post_kids) = 2
    /\ ~Shown(items[post_kids[1]])
    /\ post_kids[1] \notin net_fail
    /\ Len(result.comments) = 2
    /\ result.comments[1].id \in Range(items[post_kids[1]].kids)
    /\ result.comments[1].depth = 1
    /\ result.comments[1].ancestor_has_next_sibling = <<TRUE>>
    /\ result.comments[2].id = post_kids[2]

(***************************************************************************)
(* C24: the materialization pass reads its arguments only.                 *)
(***************************************************************************)
\* The step that runs the materialization pass: the top of the loop.
RunsPass == pc = "loop"

\* The pass over the whole tree of the source, nothing failed.
PassOverCompleteCache == build_comments_from_cache(post_kids, limit, items, {})

\* C24: the step that runs the materialization pass changes none of the
\* root ids, the limit, the item cache and the failed set, so that the pass
\* run again is run on the same arguments; and when no fetch fails, what
\* fetch_comments returns is the output of the pass over the complete cache
\* of the tree with an empty failed set.
C24_PassIsPureAndAgreesWithFetch ==
    /\ [](( Returned /\ net_fail = {} ) =>
            Some(result.comments) = PassOverCompleteCache)
    /\ [][RunsPass => UNCHANGED <<root_kids, limit, items_by_id, failed_ids>>]_vars

\* C24 witness: fetch_comments has returned the three comments of a tree of
\* two levels after more than one round of item requests, nothing failing.
C24_Witness ==
    /\ Returned
    /\ net_fail = {}
    /\ exit_path = "pass"
    /\ Len(requests) >= 3
    /\ Len(result.comments) = MaxNodes
    /\ \E i \in 1..Len(result.comments) : result.comments[i].depth > 0
    /\ Some(result.comments) = PassOverCompleteCache

(***************************************************************************)
(* C25: where a scheduled id is.                                           *)
(***************************************************************************)
BetweenRounds == pc # "fetching"

Cached == DOMAIN items_by_id

\* Every scheduled id is in exactly one of the frontier, the item cache and
\* the failed set, and the frontier holds it once.
ScheduledIdsArePartitioned ==
    /\ scheduled_ids = Frontier \cup Cached \cup failed_ids
    /\ Frontier \cap Cached = {}
    /\ Frontier \cap failed_ids = {}
    /\ Cached \cap failed_ids = {}
    /\ Cardinality(Frontier) = Len(pending)

\* No id occurs twice in the item requests issued so far.
NoIdRequestedTwice ==
    Len(Flatten(requests)) = Cardinality(Range(Flatten(requests)))

\* What one step may do to the three places.
MovesOnlyOutOfFrontier ==
    /\ \A id \in Cached : id \in DOMAIN items_by_id' /\ items_by_id'[id] = items_by_id[id]
    /\ failed_ids \subseteq failed_ids'
    /\ scheduled_ids \subseteq scheduled_ids'
    \* an id enters the cache or the failed set from the round taken out of
    \* the frontier
    /\ ((DOMAIN items_by_id' \ Cached) \cup (failed_ids' \ failed_ids))
          \subseteq Range(batch)
    \* an id enters the frontier only when it is scheduled for the first time
    /\ (Range(pending') \ Frontier) \cap scheduled_ids = {}
    \* a round takes its ids from the frontier; none was requested before
    /\ DispatchesRound =>
          /\ Range(batch') \subseteq Frontier
          /\ Range(batch') \cap Range(Flatten(requests)) = {}
          /\ Range(batch') \cap (Cached \cup failed_ids) = {}

\* C25: between the fetch rounds every scheduled id is in exactly one of the
\* frontier, the item cache and the failed set; an id only moves from the
\* frontier to the cache or to the failed set, so that neither of the two
\* shrinks, a failed id is never requested again and no id is requested
\* more than once.
C25_ScheduledIdsMoveOneWay ==
    /\ [](BetweenRounds => ScheduledIdsArePartitioned)
    /\ []NoIdRequestedTwice
    /\ [][MovesOnlyOutOfFrontier]_vars

\* C25 witness: after the first round of a post with three children, one is
\* in the cache, one in the failed set and one still in the frontier.
C25_Witness ==
    /\ pc = "loop"
    /\ Len(post_kids) = MaxNodes
    /\ Len(requests) = 2
    /\ Cardinality(Frontier) = 1
    /\ Cardinality(Cached) = 1
    /\ Cardinality(failed_ids) = 1
    /\ ScheduledIdsArePartitioned

(***************************************************************************)
(* C30: the return at the top of the loop.                                 *)
(***************************************************************************)
PassSucceeds == PassOverLocals # None

PassReachesLimit == PassSucceeds /\ Len(PassOverLocals[1]) >= limit

PassBelowLimit == PassSucceeds /\ Len(PassOverLocals[1]) < limit

ReturnsThePass ==
    /\ pc' = "done"
    /\ result' = Ok(PassOverLocals[1])
    /\ requests' = requests
    /\ pending' = pending

\* C30: a materialization pass that succeeds with `limit` nodes makes
\* fetch_comments return at once, the frontier empty or not: no round is
\* started after it and the ids in the frontier are never requested; after a
\* pass that succeeds with fewer nodes fetch_comments returns only if the
\* frontier is empty.
C30_ReturnsAtLimit ==
    /\ [][(RunsPass /\ PassReachesLimit) => ReturnsThePass]_vars
    /\ [][(RunsPass /\ PassBelowLimit /\ pc' = "done") => pending = <<>>]_vars
    /\ [][pc = "done" => requests' = requests]_vars
    /\ []((pc = "done" /\ exit_path = "pass") =>
            Frontier \cap Range(Flatten(requests)) = {})

\* C30 witness: fetch_comments has returned `limit` nodes with an id left in
\* the frontier that was never requested.
C30_Witness ==
    /\ Returned
    /\ exit_path = "pass"
    /\ Len(result.comments) = limit
    /\ Frontier # {}
    /\ Frontier \cap Range(Flatten(requests)) = {}
    /\ Frontier \cap (Cached \cup failed_ids) = {}

\* A pass that succeeded with fewer than `limit` nodes has returned, the
\* frontier empty, after more than one round.
C30_WitnessBelowLimit ==
    /\ Returned
    /\ exit_path = "pass"
    /\ Len(result.comments) < limit
    /\ Frontier = {}
    /\ Len(requests) >= 3

(***************************************************************************)
(* C26: a posts request that fails.                                        *)
(***************************************************************************)
\* The step handles the failure, not a cancellation, of the posts request
\* that is the active one.
HandlesActiveFailure ==
    /\ HandlesPostsFetched
    /\ app.active_posts_request_id = Some(Head(events).request_id)
    /\ ~Head(events).result.ok
    /\ Head(events).result.err # "Cancelled"

\* C26: when the active posts request ends in an error that is not a
\* cancellation, the posts, the story ids, the cursor, the selection and the
\* feed cache stay as they are and loading becomes false; the failure notice
\* is set only when no posts are loaded, and with posts loaded no notice is
\* shown in their place.
C26_FailureKeepsLoadedPosts ==
    [][HandlesActiveFailure =>
         /\ app'.posts = app.posts
         /\ app'.story_ids = app.story_ids
         /\ app'.next_story_index = app.next_story_index
         /\ app'.selected = app.selected
         /\ app'.feed_cache = app.feed_cache
         /\ ~app'.loading
         /\ app.posts = <<>> => app'.posts_notice # None
         /\ app.posts # <<>> => app'.posts_notice = None]_vars

\* C26 witness: a refresh of a feed with posts loaded and one selected has
\* failed; the posts are still there, without a notice.
C26_Witness ==
    /\ last_handled.type = "PostsFetched"
    /\ last_handled.outcome = "failed"
    /\ app.posts # <<>>
    /\ app.selected # None
    /\ app.posts_notice = None
    /\ ~app.loading
    /\ app.feed_cache # EmptyMap

\* The first refresh has failed with nothing loaded: the notice is shown.
C26_WitnessNotice ==
    /\ last_handled.type = "PostsFetched"
    /\ last_handled.outcome = "failed"
    /\ app.posts = <<>>
    /\ app.posts_notice # None
    /\ ~app.loading

(***************************************************************************)
(* The bookmark pane: bookmark_post and the procedures that keep the pane  *)
(* and the focus, over a loaded list of posts.  The keys are mapped as     *)
(* handle_key_event maps them: the global ones in every pane, the others   *)
(* by the pane that has the focus.                                         *)
(***************************************************************************)
\* Largest number of posts loaded at the start.
MaxBookmarkPosts == 3

\* The fields of the bookmark pane and the focus.
View ==
    [bookmarks |-> bookmarks, bookmarks_state |-> bookmarks_state,
     bookmarks_collapsed |-> bookmarks_collapsed, focus_pane |-> focus_pane]

\* App::bookmarks_visible.
bookmarks_visible(v) == v.bookmarks # <<>>

\* App::ensure_bookmarks_selection.
ensure_bookmarks_selection(v) ==
    IF v.bookmarks = <<>>
    THEN [v EXCEPT !.bookmarks_state = None,
                   !.bookmarks_collapsed = FALSE,
                   !.focus_pane = IF @ = "Bookmarks" THEN "Posts" ELSE @]
    ELSE [v EXCEPT !.bookmarks_state =
                       Some(Min(UnwrapOr(@, 0), Len(v.bookmarks) - 1))]

\* App::set_focus_pane.
set_focus_pane(v, pane) ==
    LET v1 == IF /\ v.focus_pane = "Bookmarks"
                 /\ pane # "Bookmarks"
                 /\ bookmarks_visible(v)
              THEN [v EXCEPT !.bookmarks_collapsed = TRUE]
              ELSE v
        v2 == [v1 EXCEPT !.focus_pane = pane]
    IN IF pane = "Bookmarks" /\ bookmarks_visible(v2)
       THEN ensure_bookmarks_selection([v2 EXCEPT !.bookmarks_collapsed = FALSE])
       ELSE v2

\* Mutant: no post counts as bookmarked.
IsBookmarkedNever(list, post) == FALSE

\* `self.bookmarks.iter().any(|bookmark| bookmark.id == post.id)`
IsBookmarked(list, post) == \E i \in 1..Len(list) : list[i].id = post.id

\* App::bookmark_post.
bookmark_post(v, post) ==
    IF IsBookmarked(v.bookmarks, post) THEN v
    ELSE LET was_empty == v.bookmarks = <<>>
             pushed == [v EXCEPT !.bookmarks = Append(@, post)]
         IN ensure_bookmarks_selection(
                IF was_empty
                THEN [pushed EXCEPT !.bookmarks_collapsed = TRUE]
                ELSE pushed)

\* App::post_by_id.
post_by_id(a, post_id) ==
    IF \E i \in 1..Len(a.posts) : a.posts[i].id = post_id
    THEN Some(a.posts[CHOOSE i \in 1..Len(a.posts) :
                         /\ a.posts[i].id = post_id
                         /\ \A j \in 1..(i - 1) : a.posts[j].id # post_id])
    ELSE None

\* App::comments_post.
comments_post(a) ==
    IF a.comments_for_post_id = None THEN None
    ELSE post_by_id(a, a.comments_for_post_id[1])

\* App::bookmark_selected_post.
bookmark_selected_post(v, a) ==
    IF selected_post(a) = None THEN v
    ELSE bookmark_post(v, selected_post(a)[1])

\* App::bookmark_comments_post.
bookmark_comments_post(v, a) ==
    IF comments_post(a) = None THEN v
    ELSE bookmark_post(v, comments_post(a)[1])

\* App::select_next_bookmark.
select_next_bookmark(v) ==
    LET len == Len(v.bookmarks)
    IN IF len = 0 THEN [v EXCEPT !.bookmarks_state = None]
       ELSE IF v.bookmarks_state # None /\ v.bookmarks_state[1] + 1 < len
       THEN [v EXCEPT !.bookmarks_state = Some(v.bookmarks_state[1] + 1)]
       ELSE [v EXCEPT !.bookmarks_state = Some(0)]

\* App::select_previous_bookmark.
select_previous_bookmark(v) ==
    LET len == Len(v.bookmarks)
    IN IF len = 0 THEN [v EXCEPT !.bookmarks_state = None]
       ELSE IF v.bookmarks_state = None \/ v.bookmarks_state = Some(0)
       THEN [v EXCEPT !.bookmarks_state = Some(len - 1)]
       ELSE [v EXCEPT !.bookmarks_state = Some(v.bookmarks_state[1] - 1)]

\* App::remove_selected_bookmark.
remove_selected_bookmark(v) ==
    IF v.bookmarks_state = None THEN v
    ELSE LET selected == v.bookmarks_state[1]
             rest == RemoveAt(v.bookmarks, selected + 1)
         IN IF selected >= Len(v.bookmarks) THEN ensure_bookmarks_selection(v)
            ELSE IF rest = <<>>
            THEN [v EXCEPT !.bookmarks = rest,
                           !.bookmarks_state = None,
                           !.bookmarks_collapsed = FALSE,
                           !.focus_pane = IF @ = "Bookmarks" THEN "Posts" ELSE @]
            ELSE [v EXCEPT !.bookmarks = rest,
                           !.bookmarks_state = Some(Min(selected, Len(rest) - 1))]

\* App::close_bookmarks_pane.
close_bookmarks_pane(v) ==
    IF v.bookmarks = <<>> THEN set_focus_pane(v, "Posts")
    ELSE set_focus_pane([v EXCEPT !.bookmarks_collapsed = TRUE], "Posts")

\* App::open_bookmarks_pane.
open_bookmarks_pane(v) ==
    IF v.bookmarks = <<>> THEN v
    ELSE ensure_bookmarks_selection(
             set_focus_pane([v EXCEPT !.bookmarks_collapsed = FALSE], "Bookmarks"))

\* App::visible_panes.
visible_panes(v, a) ==
    <<"Feeds">>
    \o (IF bookmarks_visible(v) THEN <<"Bookmarks">> ELSE <<>>)
    \o <<"Posts">>
    \o (IF a.comments_open THEN <<"Comments">> ELSE <<>>)

\* App::cycle_focus; the indices count from 0 as position() does.
cycle_focus(v, a, delta) ==
    LET panes == visible_panes(v, a)
        pane_count == Len(panes)
        current_position ==
            IF \E i \in 1..pane_count : panes[i] = v.focus_pane
            THEN (CHOOSE i \in 1..pane_count : panes[i] = v.focus_pane) - 1
            ELSE 0
        next_index == (current_position + delta + pane_count) % pane_count
    IN IF pane_count <= 1 THEN v
       ELSE set_focus_pane(v, panes[next_index + 1])

\* App::ensure_focus_valid; visible_panes is never empty.
ensure_focus_valid(v, a) ==
    ensure_bookmarks_selection(
        IF v.focus_pane \in Range(visible_panes(v, a)) THEN v
        ELSE [v EXCEPT !.focus_pane = "Posts"])

\* App::handle_pane_shortcut.
handle_pane_shortcut(v, a, key) ==
    ensure_focus_valid(
        IF key = "1"
        THEN IF ~bookmarks_visible(v) THEN v
             ELSE IF v.focus_pane = "Bookmarks"
             THEN IF v.bookmarks_collapsed THEN open_bookmarks_pane(v)
                  ELSE [v EXCEPT !.bookmarks_collapsed = TRUE]
             ELSE open_bookmarks_pane(v)
        ELSE IF key = "2" THEN set_focus_pane(v, "Posts")
        ELSE IF key = "3" THEN set_focus_pane(v, "Feeds")
        ELSE IF key = "4" /\ a.comments_open THEN set_focus_pane(v, "Comments")
        ELSE v,
        a)

\* The new state of the pane; what the key did is noted in last_handled.
CommitPane(v, key, outcome) ==
    /\ bookmarks' = v.bookmarks
    /\ bookmarks_state' = v.bookmarks_state
    /\ bookmarks_collapsed' = v.bookmarks_collapsed
    /\ focus_pane' = v.focus_pane
    /\ last_handled' = [type |-> key, outcome |-> outcome]
    /\ UNCHANGED <<app, events, posts_tasks, cancelled, comment_tasks, now,
                   comments_issued, id_reused>>
    /\ UNCHANGED nvars
    /\ UNCHANGED bvars

\* What bookmark_post makes of a post, or of none.
BookmarkOutcome(maybe_post) ==
    IF maybe_post = None THEN "none"
    ELSE IF IsBookmarked(bookmarks, maybe_post[1]) THEN "kept"
    ELSE "added"

\* PostsKeyAction::BookmarkSelected, and BookmarksKeyAction::BookmarkSelected
\* of the expanded pane.
KeyBookmarkSelected ==
    /\ \/ focus_pane = "Posts"
       \/ focus_pane = "Bookmarks" /\ ~bookmarks_collapsed
    /\ CommitPane(bookmark_selected_post(View, app), "BookmarkSelected",
                  BookmarkOutcome(selected_post(app)))

\* CommentsKeyAction::BookmarkPost.
KeyBookmarkPost ==
    /\ focus_pane = "Comments"
    /\ CommitPane(bookmark_comments_post(View, app), "BookmarkPost",
                  BookmarkOutcome(comments_post(app)))

\* BookmarksKeyAction::Delete.
KeyDeleteBookmark ==
    /\ focus_pane = "Bookmarks" /\ ~bookmarks_collapsed
    /\ CommitPane(remove_selected_bookmark(View), "Delete", "none")

\* BookmarksKeyAction::SelectNext.
KeySelectNextBookmark ==
    /\ focus_pane = "Bookmarks" /\ ~bookmarks_collapsed
    /\ CommitPane(select_next_bookmark(View), "SelectNext", "none")

\* BookmarksKeyAction::SelectPrevious.
KeySelectPreviousBookmark ==
    /\ focus_pane = "Bookmarks" /\ ~bookmarks_collapsed
    /\ CommitPane(select_previous_bookmark(View), "SelectPrevious", "none")

\* BookmarksKeyAction::Expand, mapped while the pane is collapsed.
KeyExpandBookmarks ==
    /\ focus_pane = "Bookmarks" /\ bookmarks_collapsed
    /\ CommitPane(open_bookmarks_pane(View), "Expand", "none")

\* BookmarksKeyAction::Close.
KeyCloseBookmarks ==
    /\ focus_pane = "Bookmarks"
    /\ CommitPane(close_bookmarks_pane(View), "Close", "none")

\* GlobalKeyAction::FocusNextPane.
KeyFocusNextPane ==
    /\ CommitPane(cycle_focus(View, app, 1), "FocusNextPane", "none")

\* GlobalKeyAction::FocusPreviousPane.
KeyFocusPreviousPane ==
    /\ CommitPane(cycle_focus(View, app, -1), "FocusPreviousPane", "none")

\* GlobalKeyAction::PaneShortcut.
KeyPaneShortcut ==
    /\ \E key \in {"1", "2", "3", "4"} :
         CommitPane(handle_pane_shortcut(View, app, key), "PaneShortcut", "none")

\* PostsKeyAction::SelectPrevious, in the posts pane.
PostsPaneSelectPrevious ==
    /\ focus_pane = "Posts"
    /\ KeySelectPrevious

\* PostsKeyAction::SelectNextAndLoadMore, in the posts pane.
PostsPaneSelectNext ==
    /\ focus_pane = "Posts"
    /\ KeySelectNextAndLoadMore

\* The state once n posts, all there are, have been loaded and the post at
\* sel is selected; comments_open says whether the comment view was opened
\* on the first post, a job, which gives it the focus.
InitBookmarks ==
    \E n \in 0..MaxBookmarkPosts, comments_open \in BOOLEAN :
      \E sel \in {None} \cup {Some(i) : i \in 0..(n - 1)} :
        /\ (n = 0) => (sel = None /\ ~comments_open)
        /\ (n > 0) => sel # None
        /\ comments_open => sel = Some(0)
        /\ app = [AppNew EXCEPT
                     !.story_ids = LoadedIds(n),
                     !.next_story_index = n,
                     !.has_more_posts = FALSE,
                     !.posts = LoadedPosts(n),
                     !.selected = sel,
                     !.last_fetched = IF n = 0 THEN None ELSE Some("hh:mm"),
                     !.next_posts_request_id = 1,
                     !.comments_open = comments_open,
                     !.comments_for_post_id =
                         IF comments_open THEN Some(LoadedIds(n)[1]) ELSE None,
                     !.comments_notice =
                         IF comments_open THEN Some(JobsNotice) ELSE None]
        /\ events = <<>>
        /\ posts_tasks = <<>>
        /\ cancelled = {}
        /\ comment_tasks = <<>>
        /\ now = 0
        /\ comments_issued = [id \in StoryIds |-> 0]
        /\ id_reused = FALSE
        /\ last_handled = NothingHandled
        /\ bookmarks = <<>>
        /\ bookmarks_state = None
        /\ bookmarks_collapsed = FALSE
        /\ focus_pane = IF comments_open THEN "Comments" ELSE "Posts"
        /\ NavIdle
        /\ BuilderIdle

NextBookmarks ==
    \/ KeyBookmarkSelected
    \/ KeyBookmarkPost
    \/ KeyDeleteBookmark
    \/ KeySelectNextBookmark
    \/ KeySelectPreviousBookmark
    \/ KeyExpandBookmarks
    \/ KeyCloseBookmarks
    \/ KeyFocusNextPane
    \/ KeyFocusPreviousPane
    \/ KeyPaneShortcut
    \/ PostsPaneSelectPrevious
    \/ PostsPaneSelectNext

SpecBookmarks == InitBookmarks /\ [][NextBookmarks]_vars

(***************************************************************************)
(* C27: bookmarking a post.                                                *)
(***************************************************************************)
BookmarkIds == [i \in 1..Len(bookmarks) |-> bookmarks[i].id]

NoPostBookmarkedTwice == Cardinality(Range(BookmarkIds)) = Len(bookmarks)

\* What a step that hands maybe_post to bookmark_post may do.
BookmarksOnce(maybe_post) ==
    maybe_post # None =>
        IF maybe_post[1].id \in Range(BookmarkIds)
        THEN UNCHANGED pvars
        ELSE bookmarks' = Append(bookmarks, maybe_post[1])

\* C27: the bookmark list never holds two entries with the same post id;
\* bookmarking a post that is in the list leaves the list, its order and the
\* state of the pane (selection, collapsed flag, focus) as they are, and a
\* new bookmark is appended at the end of the list.
C27_BookmarkedOncePerPostId ==
    /\ []NoPostBookmarkedTwice
    /\ [][KeyBookmarkSelected => BookmarksOnce(selected_post(app))]_vars
    /\ [][KeyBookmarkPost => BookmarksOnce(comments_post(app))]_vars

\* C27 witness: a post that was bookmarked before a post with a smaller id
\* has been bookmarked again, in the expanded bookmark pane with its second
\* entry selected; the list still holds the two in the order they were added.
C27_Witness ==
    /\ last_handled.type = "BookmarkSelected"
    /\ last_handled.outcome = "kept"
    /\ Len(bookmarks) = 2
    /\ bookmarks[1].id > bookmarks[2].id
    /\ selected_post(app) = Some(bookmarks[1])
    /\ focus_pane = "Bookmarks"
    /\ ~bookmarks_collapsed
    /\ bookmarks_state = Some(1)

(***************************************************************************)
(* comments_nav: next_sibling_or_outer_index and                           *)
(* previous_sibling_or_parent_index, each called once on a comment list    *)
(* and an index.  The functions read the depths only; build_comments_from_ *)
(* cache can return any sequence of depths, a hidden node leaving its      *)
(* children at their depth.                                                *)
(***************************************************************************)
\* Longest comment list and largest depth of a call.
MaxComments == 5
MaxDepth == 2

\* A Comment, by the field the functions read.
NavComment(depth) == [depth |-> depth]

\* The comment lists of up to MaxComments comments; the indices count from 0.
NavLists ==
    UNION {[1..n -> {NavComment(d) : d \in 0..MaxDepth}] : n \in 0..MaxComments}

\* `comments.get(index)`.
Get(comments, index) ==
    IF index < Len(comments) THEN Some(comments[index + 1]) ELSE None

\* Mutant: only a comment of the same depth ends the scan.
EndsForwardScanSameDepthOnly(depth, current_depth) == depth = current_depth

\* `comment.depth == current_depth || comment.depth < current_depth`
EndsForwardScan(depth, current_depth) ==
    depth = current_depth \/ depth < current_depth

\* `for (next_index, comment) in comments.iter().enumerate().skip(..)`
RECURSIVE ScanForward(_, _, _)
ScanForward(comments, current_depth, next_index) ==
    IF next_index >= Len(comments) THEN None
    ELSE IF EndsForwardScan(comments[next_index + 1].depth, current_depth)
    THEN Some(next_index)
    ELSE ScanForward(comments, current_depth, next_index + 1)

\* comments_nav::next_sibling_or_outer_index.
next_sibling_or_outer_index(comments, index) ==
    IF Get(comments, index) = None THEN None
    ELSE ScanForward(comments, Get(comments, index)[1].depth, index + 1)

\* `(0..current_index).rev().find(|&index| comments[index].depth < current_depth)`;
\* below is the number of indices still to look at.
RECURSIVE FindShallower(_, _, _)
FindShallower(comments, current_depth, below) ==
    IF below = 0 THEN None
    ELSE IF comments[below].depth < current_depth THEN Some(below - 1)
    ELSE FindShallower(comments, current_depth, below - 1)

\* comments_nav::nearest_parent_index.
nearest_parent_index(comments, index) ==
    IF Get(comments, index) = None THEN None
    ELSE IF Get(comments, index)[1].depth = 0 THEN None
    ELSE FindShallower(comments, Get(comments, index)[1].depth, index)

\* Mutant: the scan does not stop at a shallower comment.
BreaksBackwardScanNever(depth, current_depth) == FALSE

\* `if depth < current_depth { break; }`
BreaksBackwardScan(depth, current_depth) == depth < current_depth

\* `for prev_index in (0..current_index).rev()`: the index found, or None
\* when the loop breaks or runs out; below is the number of indices still to
\* look at.
RECURSIVE ScanBackward(_, _, _)
ScanBackward(comments, current_depth, below) ==
    IF below = 0 THEN None
    ELSE IF BreaksBackwardScan(comments[below].depth, current_depth) THEN None
    ELSE IF comments[below].depth = current_depth THEN Some(below - 1)
    ELSE ScanBackward(comments, current_depth, below - 1)

\* comments_nav::previous_sibling_or_parent_index.
previous_sibling_or_parent_index(comments, index) ==
    IF Get(comments, index) = None THEN None
    ELSE LET found == ScanBackward(comments, Get(comments, index)[1].depth, index)
         IN IF found # None THEN found
            ELSE nearest_parent_index(comments, index)

\* The arguments of the call: any list, any index up to one past its end.
InitNav ==
    /\ nav_comments \in NavLists
    /\ current_index \in 0..(Len(nav_comments) + 1)
    /\ nav_call = "none"
    /\ nav_result = None
    /\ app = AppNew
    /\ events = <<>>
    /\ posts_tasks = <<>>
    /\ cancelled = {}
    /\ comment_tasks = <<>>
    /\ now = 0
    /\ comments_issued = [id \in StoryIds |-> 0]
    /\ id_reused = FALSE
    /\ last_handled = NothingHandled
    /\ PaneNew
    /\ BuilderIdle

Returns(call, value) ==
    /\ nav_call = "none"
    /\ nav_call' = call
    /\ nav_result' = value
    /\ UNCHANGED <<nav_comments, current_index>>
    /\ UNCHANGED <<app, events, posts_tasks, cancelled, comment_tasks, now,
                   comments_issued, id_reused, last_handled>>
    /\ UNCHANGED pvars
    /\ UNCHANGED bvars

CallNextSiblingOrOuter ==
    /\ Returns("next_sibling_or_outer_index",
               next_sibling_or_outer_index(nav_comments, current_index))

CallPreviousSiblingOrParent ==
    /\ Returns("previous_sibling_or_parent_index",
               previous_sibling_or_parent_index(nav_comments, current_index))

NextNav ==
    \/ CallNextSiblingOrOuter
    \/ CallPreviousSiblingOrParent

SpecNav == InitNav /\ [][NextNav]_vars

(***************************************************************************)
(* C28, C29: the sibling navigation of the comment view.                   *)
(***************************************************************************)
InRange == current_index < Len(nav_comments)

\* The depth of the comment at index j, counted from 0.
DepthAt(j) == nav_comments[j + 1].depth

Later == {j \in 0..(Len(nav_comments) - 1) : j > current_index}

Earlier == {j \in 0..(Len(nav_comments) - 1) : j < current_index}

NotDeeperLater == {j \in Later : DepthAt(j) <= DepthAt(current_index)}

Smallest(S) == CHOOSE j \in S : \A k \in S : j <= k

Largest(S) == CHOOSE j \in S : \A k \in S : k <= j

\* C28: next_sibling_or_outer_index(comments, i) returns the smallest index
\* j > i whose depth is at most the depth of comment i, and none when there
\* is no such j or i is out of range.
C28_NextSiblingOrOuter ==
    nav_call = "next_sibling_or_outer_index" =>
        nav_result = IF InRange /\ NotDeeperLater # {}
                     THEN Some(Smallest(NotDeeperLater))
                     ELSE None

\* C28 witness: the call passed over deeper comments and a later comment of
\* an outer level was returned, no sibling in between.
C28_Witness ==
    /\ nav_call = "next_sibling_or_outer_index"
    /\ nav_result # None
    /\ nav_result[1] > current_index + 1
    /\ DepthAt(nav_result[1]) < DepthAt(current_index)

\* The calls that return none: on the last comment of its level, and on an
\* index past the end of a list.
C28_WitnessNone ==
    /\ nav_call = "next_sibling_or_outer_index"
    /\ nav_result = None
    /\ \/ InRange /\ Later # {}
       \/ ~InRange /\ nav_comments # <<>>

\* The earlier comments of the same depth with no shallower comment between
\* them and comment i.
PreviousSiblings ==
    {j \in Earlier :
        /\ DepthAt(j) = DepthAt(current_index)
        /\ \A k \in Earlier : k > j => DepthAt(k) >= DepthAt(current_index)}

ShallowerEarlier == {j \in Earlier : DepthAt(j) < DepthAt(current_index)}

\* C29: previous_sibling_or_parent_index(comments, i) returns the nearest
\* index j < i of the depth of comment i when no shallower comment lies
\* between j and i, otherwise the nearest index j < i of smaller depth, and
\* none when there is neither: so for a comment of depth 0 without an
\* earlier comment of depth 0.
C29_PreviousSiblingOrParent ==
    (nav_call = "previous_sibling_or_parent_index" /\ InRange) =>
        /\ nav_result = IF PreviousSiblings # {} THEN Some(Largest(PreviousSiblings))
                        ELSE IF ShallowerEarlier # {} THEN Some(Largest(ShallowerEarlier))
                        ELSE None
        /\ (DepthAt(current_index) = 0
            /\ \A j \in Earlier : DepthAt(j) # 0) => nav_result = None

\* C29 witness: an earlier comment of the same depth lies behind a shallower
\* one, and the call returned the shallower one, the parent.
C29_Witness ==
    /\ nav_call = "previous_sibling_or_parent_index"
    /\ InRange
    /\ \E j \in Earlier : DepthAt(j) = DepthAt(current_index)
    /\ PreviousSiblings = {}
    /\ nav_result # None
    /\ DepthAt(nav_result[1]) < DepthAt(current_index)

\* The call returned the previous sibling, past deeper comments.
C29_WitnessSibling ==
    /\ nav_call = "previous_sibling_or_parent_index"
    /\ InRange
    /\ nav_result # None
    /\ nav_result[1] + 1 < current_index
    /\ DepthAt(nav_result[1]) = DepthAt(current_index)

\* The call returned none on a comment of depth 0 that deeper comments come
\* before.
C29_WitnessNone ==
    /\ nav_call = "previous_sibling_or_parent_index"
    /\ InRange
    /\ DepthAt(current_index) = 0
    /\ Earlier # {}
    /\ nav_result = None

(***************************************************************************)
(* C31: the pages of a feed.  The first page of a feed of up to MaxStories *)
(* stories has been loaded by the refresh App::run asks for; the selection *)
(* moves and further pages are requested and applied.                      *)
(***************************************************************************)
\* Largest number of stories the feed holds.
MaxStories == 6

\* The world in which App::run sends its first Refresh.
StartWorld ==
    [app |-> AppNew, events |-> <<>>, posts_tasks |-> <<>>, cancelled |-> {},
     comment_tasks |-> <<>>, now |-> 0,
     comments_issued |-> [id \in StoryIds |-> 0], id_reused |-> FALSE,
     last_handled |-> NothingHandled]

\* The world once the first refresh of a feed of `total` stories has been
\* begun, its task has resolved, with every item fetched when it succeeded,
\* and its result has been handled.
FirstRefreshHandled(total, succeeded) ==
    LET story_ids == LoadedIds(total)
        begun == handle_refresh(StartWorld)
        task == begun.posts_tasks[1]
        first_index == Min(Len(story_ids), POSTS_PAGE_SIZE)
        payload == [mode |-> "Replace",
                    story_ids |-> Some(story_ids),
                    items |-> fetch_items_by_ids(SubSeq(story_ids, 1, first_index), {},
                                                 DispatchOrder(first_index)),
                    next_story_index |-> first_index]
    IN handle_posts_fetched([begun EXCEPT !.posts_tasks = <<>>],
                            task.request_id,
                            IF succeeded THEN OkOf(payload)
                            ELSE ErrOf("network error"))

InitPages ==
    \E total \in 0..MaxStories, succeeded \in BOOLEAN :
      LET w == FirstRefreshHandled(total, succeeded)
      IN /\ app = w.app
         /\ events = w.events
         /\ posts_tasks = w.posts_tasks
         /\ cancelled = w.cancelled
         /\ comment_tasks = w.comment_tasks
         /\ now = w.now
         /\ comments_issued = w.comments_issued
         /\ id_reused = w.id_reused
         /\ last_handled = w.last_handled
         /\ PaneNew
         /\ NavIdle
         /\ BuilderIdle

NextPages ==
    \/ KeySelectNextAndLoadMore
    \/ KeySelectPrevious
    \/ PostsTaskCompletes
    \/ HandlePostsFetched

SpecPages == InitPages /\ [][NextPages]_vars

\* The step is PostsKeyAction::SelectNextAndLoadMore with load_more_posts
\* getting as far as its call of request_more_posts.
CallsRequestMorePosts ==
    /\ KeySelectNextAndLoadMore
    /\ ~app.loading
    /\ ~app.comments_open
    /\ app.has_more_posts
    /\ has_reached_load_more_threshold(select_next(app))

\* The task the step has spawned.
SpawnedTask == posts_tasks'[Len(posts_tasks')]

\* The ids of the posts of a list.
PostIds(post_list) == [i \in 1..Len(post_list) |-> post_list[i].id]

\* The upper bound of the page that starts at the cursor.
UpperBound == Min(app.next_story_index + POSTS_PAGE_SIZE, Len(app.story_ids))

\* A load-more request is begun only with no request loading, has_more_posts
\* true and the cursor below the number of story ids, and its task is given
\* the ids at the positions from the cursor up to the upper bound: at least
\* one and at most a page of them, all of them positions of story_ids.
BeginsLoadMoreWithinBounds ==
    BeginsLoadMore =>
        /\ ~app.loading
        /\ app.has_more_posts
        /\ app.next_story_index < Len(app.story_ids)
        /\ UpperBound <= Len(app.story_ids)
        /\ Len(SpawnedTask.page_ids) = UpperBound - app.next_story_index
        /\ Len(SpawnedTask.page_ids) \in 1..POSTS_PAGE_SIZE
        /\ \A k \in 1..Len(SpawnedTask.page_ids) :
               SpawnedTask.page_ids[k] = app.story_ids[app.next_story_index + k]
        /\ SpawnedTask.next_story_index = UpperBound
        /\ app'.loading

\* request_more_posts called with the cursor below the number of story ids
\* begins a request; called with the cursor at or past it, it sets
\* has_more_posts false and requests nothing.
RequestsOrEndsTheFeed ==
    CallsRequestMorePosts =>
        IF app.next_story_index < Len(app.story_ids)
        THEN BeginsLoadMore
        ELSE /\ ~app'.has_more_posts
             /\ posts_tasks' = posts_tasks
             /\ ~app'.loading

\* The step applies the result of a load-more request.
AppliesLoadMore ==
    /\ HandlesPostsFetched
    /\ app.active_posts_request_id = Some(Head(events).request_id)
    /\ Head(events).result.ok
    /\ Head(events).result.payload.mode = "Append"

\* Applying the result keeps the posts there are, in their order, puts the
\* posts of the requested ids after them and moves the cursor to the upper
\* bound of the page.
AppendsThePage ==
    AppliesLoadMore =>
        /\ SubSeq(app'.posts, 1, Len(app.posts)) = app.posts
        /\ PostIds(SubSeq(app'.posts, Len(app.posts) + 1, Len(app'.posts)))
             = SubSeq(app.story_ids, app.next_story_index + 1, UpperBound)
        /\ app'.next_story_index = UpperBound
        /\ app'.story_ids = app.story_ids

\* C31: a load-more request is begun only when no posts request is loading,
\* has_more_posts is true and the cursor is below the number of story ids
\* (with the cursor at that number has_more_posts is set false and nothing
\* is requested); it requests exactly the ids at the positions
\* [cursor, min(cursor + POSTS_PAGE_SIZE, number of story ids)), all within
\* story_ids and at most POSTS_PAGE_SIZE of them; applying its result
\* appends the new posts after the existing ones, which stay unchanged and
\* in order, and sets the cursor to that upper bound.
C31_LoadMoreRequestsTheNextPage ==
    /\ [][BeginsLoadMoreWithinBounds]_vars
    /\ [][RequestsOrEndsTheFeed]_vars
    /\ [][AppendsThePage]_vars

\* C31 witness: of a feed of five stories the first page was loaded, a full
\* second page was requested and appended, and the last, shorter page has
\* been appended after it: five posts in the order of the story ids, the
\* cursor at five.
C31_Witness ==
    /\ last_handled.type = "PostsFetched"
    /\ last_handled.outcome = "applied"
    /\ Len(app.story_ids) = 5
    /\ app.next_story_index = 5
    /\ PostIds(app.posts) = app.story_ids
    /\ ~app.has_more_posts
    /\ app.next_posts_request_id = 3

\* The second page, a full one, is being fetched.
C31_WitnessFullPage ==
    /\ Len(posts_tasks) = 1
    /\ posts_tasks[1].mode = "Append"
    /\ Len(posts_tasks[1].page_ids) = POSTS_PAGE_SIZE
    /\ posts_tasks[1].next_story_index < Len(app.story_ids)

\* The first refresh failed, which left has_more_posts true with no story
\* ids; request_more_posts found the cursor at their number and set
\* has_more_posts false.
C31_WitnessEndOfFeed ==
    /\ app.story_ids = <<>>
    /\ app.posts_notice # None
    /\ ~app.has_more_posts
    /\ ~app.loading
    /\ posts_tasks = <<>>

(***************************************************************************)
(* C32: the feed a posts result belongs to.  The feeds of the source have  *)
(* no story in common, so the story ids tell which feed a list is of.      *)
(***************************************************************************)
\* The story ids and the posts are all stories of the feed.
IsOfFeed(story_id_list, post_list, feed) ==
    /\ Range(story_id_list) \subseteq Range(StoryIdsOf(feed))
    /\ Range(PostIds(post_list)) \subseteq Range(StoryIdsOf(feed))

\* The posts shown are of the selected feed, and every entry of the feed
\* cache holds posts of the feed it is stored under.
ShowsAndCachesOwnFeed ==
    /\ IsOfFeed(app.story_ids, app.posts, app.selected_feed)
    /\ \A feed \in DOMAIN app.feed_cache :
           IsOfFeed(app.feed_cache[feed].story_ids,
                    app.feed_cache[feed].posts, feed)

\* The step applies the Ok result of the active posts request.
AppliesPostsResult ==
    /\ HandlesPostsFetched
    /\ app.active_posts_request_id = Some(Head(events).request_id)
    /\ Head(events).result.ok

\* The result at the head of the channel was fetched from the feed.
FetchedFrom(feed) ==
    LET payload == Head(events).result.payload
    IN IsOfFeed(UnwrapOr(payload.story_ids, <<>>),
                posts_from_items(payload.items), feed)

\* C32: every posts result that is applied was fetched from the feed that
\* is selected when it is applied, so the posts shown while a feed is
\* selected, and the cache entry stored under a feed, hold only story ids
\* and posts of that feed.
C32_AppliedResultIsOfSelectedFeed ==
    /\ [][AppliesPostsResult => FetchedFrom(app.selected_feed)]_vars
    /\ []ShowsAndCachesOwnFeed

(***************************************************************************)
(* C33: the three parts of the posts request lifecycle.                    *)
(***************************************************************************)
\* loading, active_posts_request_id and posts_request_cancel are all set or
\* all clear.
LifecycleAgrees ==
    /\ app.loading <=> app.active_posts_request_id # None
    /\ app.loading <=> app.posts_request_cancel # None

\* The three parts are set after the step.
AllSetAfter ==
    /\ app'.loading
    /\ app'.active_posts_request_id # None
    /\ app'.posts_request_cancel # None

\* The three parts are clear after the step.
AllClearAfter ==
    /\ ~app'.loading
    /\ app'.active_posts_request_id = None
    /\ app'.posts_request_cancel = None

\* The step handles the result of the active posts request.
HandlesActiveResult ==
    /\ HandlesPostsFetched
    /\ app.active_posts_request_id = Some(Head(events).request_id)

\* One of the three parts is not what it was.
LifecycleChanges ==
    \/ app'.loading # app.loading
    \/ app'.active_posts_request_id # app.active_posts_request_id
    \/ app'.posts_request_cancel # app.posts_request_cancel

\* C33: in every reachable state loading is true iff active_posts_request_id
\* is set iff a cancellation token is held; the three are set together by
\* begin_posts_request, cleared together when the result of the active
\* request is handled, and changed by nothing else.
C33_LifecyclePartsAgree ==
    /\ []LifecycleAgrees
    /\ [][BeginsPostsRequest => AllSetAfter]_vars
    /\ [][HandlesActiveResult => AllClearAfter]_vars
    /\ [][LifecycleChanges => BeginsPostsRequest \/ HandlesActiveResult]_vars

\* C33 witness: the result of a request was applied, which cleared the
\* three parts, and a further request has set them again; its task runs.
C33_Witness ==
    /\ last_handled.type = "PostsFetched"
    /\ last_handled.outcome = "applied"
    /\ app.loading
    /\ app.active_posts_request_id = Some(app.next_posts_request_id)
    /\ app.posts_request_cancel # None
    /\ Len(posts_tasks) = 1
    /\ posts_tasks[1].cancel_token = app.posts_request_cancel[1]

\* The result of the active request was applied and the three parts are
\* clear.
C33_WitnessClear ==
    /\ last_handled.type = "PostsFetched"
    /\ last_handled.outcome = "applied"
    /\ ~app.loading
    /\ app.active_posts_request_id = None
    /\ app.posts_request_cancel = None
    /\ app.next_posts_request_id > 0

(***************************************************************************)
(* C34: every posts request ends.  The posts stream of SpecApp, with the   *)
(* tasks and the event loop running on: tokio runs every spawned task, a   *)
(* network call resolves or times out, and App::run receives every event   *)
(* of the channel.  Keys may or may not be pressed.                        *)
(***************************************************************************)
\* The posts task at position i resolves and send_async sends its event.
PostsTaskCompletesAt(i) ==
    /\ i \in DOMAIN posts_tasks
    /\ PostsTaskCompletes
    /\ posts_tasks' = RemoveAt(posts_tasks, i)

FairnessApp ==
    /\ \A i \in 1..MaxInFlight : WF_vars(PostsTaskCompletesAt(i))
    /\ WF_vars(HandleRefresh)
    /\ WF_vars(HandlePostsFetched)

SpecAppFair == SpecApp /\ FairnessApp

\* The PostsFetched events in the channel.
PostsEvents(channel) == SelectSeq(channel, LAMBDA ev : ev.type = "PostsFetched")

\* A task that ends sends one PostsFetched event with its request id, and
\* no other step takes a task away or sends such an event.
OneEventPerTask ==
    /\ Len(posts_tasks') < Len(posts_tasks) =>
         \E i \in DOMAIN posts_tasks :
           /\ posts_tasks' = RemoveAt(posts_tasks, i)
           /\ Len(events') = Len(events) + 1
           /\ SubSeq(events', 1, Len(events)) = events
           /\ events'[Len(events')].type = "PostsFetched"
           /\ events'[Len(events')].request_id = posts_tasks[i].request_id
    /\ Len(PostsEvents(events')) > Len(PostsEvents(events)) =>
         Len(posts_tasks') = Len(posts_tasks) - 1

\* The event of the request begun last is taken for the active request's,
\* which clears loading; the event of a request begun before the last one
\* is dropped: it changes nothing of App.
LastIsAppliedOthersDropped ==
    HandlesPostsFetched =>
        IF Head(events).request_id = app.next_posts_request_id
        THEN /\ app.active_posts_request_id = Some(Head(events).request_id)
             /\ AllClearAfter
        ELSE app' = app

\* Once no further posts request is begun, the tasks end, their events are
\* received and loading is false from then on.
LastRequestEnds ==
    <>[][~BeginsPostsRequest]_vars
        => <>[](~app.loading /\ posts_tasks = <<>> /\ events = <<>>)

C34_LastRequestIsAppliedOnceWhileIdsDistinct ==
    /\ [][OneEventPerTask]_vars
    /\ [][~id_reused => LastIsAppliedOthersDropped]_vars
    /\ LastRequestEnds

(***************************************************************************)
(* C35: fetch_comments terminates.  The invocation runs on: every request  *)
(* of a round resolves (with an item or an error) and the function takes   *)
(* its next step.                                                          *)
(***************************************************************************)
\* A step of fetch_comments is possible in every state but the last: at
\* the head, at the top of the loop, and in a round, where a request is in
\* flight or the stream has ended.
StepIsPossible == pc # "done"

\* WF_vars(NextBuild), with ENABLED <<NextBuild>>_vars written out as
\* StepIsPossible: fetch_comments does not stop while a step is possible.
FairnessBuild == []<>(~StepIsPossible) \/ []<><<NextBuild>>_vars

SpecBuildFair == SpecBuild /\ FairnessBuild

\* The ids reachable from a set of ids along the child-id lists of the
\* source.
RECURSIVE ReachableFrom(_)
ReachableFrom(ids) ==
    LET further == ids \cup UNION {Range(items[id].kids) : id \in ids \cap DOMAIN items}
    IN IF further = ids THEN ids ELSE ReachableFrom(further)

\* The ids reachable from the post.
ReachableIds == ReachableFrom(Range(post_kids))

\* The fetch rounds dispatched so far: the requests after that of the post.
Rounds == IF requests = <<>> THEN 0 ELSE Len(requests) - 1

\* A round takes at least one id from the frontier.
RoundShrinksFrontier ==
    DispatchesRound =>
        /\ batch' # <<>>
        /\ Len(pending') = Len(pending) - Len(batch')
        /\ Range(pending') = Range(pending) \ Range(batch')

\* An id put on the frontier was never on it before: every id that was on
\* it is in scheduled_ids, and the frontier holds no id twice.
NoIdOnFrontierTwice ==
    /\ (Range(pending') \ Range(pending)) \cap scheduled_ids = {}
    /\ Range(pending) \subseteq scheduled_ids
    /\ Len(pending') = Cardinality(Range(pending'))

\* The pass over the locals ends: the walk meets each id once, all of them
\* scheduled ids, and yields None or at most one comment for each.
PassEnds ==
    pc = "loop" =>
        /\ Len(WalkOrder) = Cardinality(Range(WalkOrder))
        /\ Range(WalkOrder) \subseteq scheduled_ids
        /\ PassOverLocals # None => Len(PassOverLocals[1]) <= Len(WalkOrder)

\* C35: for every finite tree of items and every set of failing ids
\* fetch_comments terminates: every fetch round takes at least one id from
\* the frontier, no id is put on the frontier twice, every materialization
\* pass ends with a value, and there are at most as many rounds as ids
\* reachable from the post.
C35_FetchCommentsTerminates ==
    /\ <>(pc = "done")
    /\ [][RoundShrinksFrontier]_vars
    /\ [][NoIdOnFrontierTwice]_vars
    /\ []PassEnds
    /\ [](Rounds <= Cardinality(ReachableIds))

\* C35 witness: with rounds of up to two requests, a chain of three items
\* (each the only child of the one before) took three rounds, as many as
\* there are ids, and fetch_comments has returned all three.
C35_Witness ==
    /\ pc = "done"
    /\ exit_path = "pass"
    /\ concurrency = ScaledConcurrency
    /\ Len(post_kids) = 1
    /\ Cardinality(ReachableIds) = MaxNodes
    /\ Rounds = MaxNodes
    /\ Len(result.comments) = MaxNodes

\* It has returned although the fetch of some id failed in one of two
\* rounds.
C35_WitnessFailure ==
    /\ pc = "done"
    /\ failed_ids # {}
    /\ Rounds = 2

(***************************************************************************)
(* C36: the fallback after the loop of fetch_comments.                     *)
(***************************************************************************)
\* fetch_comments is at the top of its loop with nothing left to fetch.
FrontierEmptyAtTop == pc = "loop" /\ pending = <<>>

\* Every id the walk of the pass can meet is in the cache or in the failed
\* set.
WalkIsResolved == \A id \in Range(WalkOrder) : ~Unresolved(id)

\* fetch_comments has returned Ok from the statement after the loop.
TookFallback == pc = "done" /\ exit_path = "fallback"

\* C36: whenever the frontier is empty at the top of the loop, every id the
\* pass can reach is cached or failed and the pass succeeds; so
\* fetch_comments returns from inside the loop with the value of a
\* successful pass, and the fallback after the loop is never taken.
C36_FallbackIsNeverTaken ==
    /\ [](FrontierEmptyAtTop => WalkIsResolved /\ PassSucceeds)
    /\ [](~TookFallback)
    /\ [][(FrontierEmptyAtTop /\ pc' = "done") =>
              /\ exit_path' = "pass"
              /\ Some(result'.comments) = PassOverLocals]_vars

\* C36 witness: the last round has emptied the frontier; some fetch failed,
\* some item is cached, and the pass succeeds below the limit, so that the
\* empty frontier is what makes fetch_comments return.
C36_Witness ==
    /\ FrontierEmptyAtTop
    /\ Len(requests) >= 3
    /\ failed_ids # {}
    /\ items_by_id # EmptyMap
    /\ PassSucceeds
    /\ Len(PassOverLocals[1]) < limit

(***************************************************************************)
(* C37: the completion order of the requests of a batch.  fetch_comments   *)
(* over the forests of MaxNodes + 1 items, the smallest in which a round   *)
(* holds two items that both have a child, so that the order in which the  *)
(* results are processed decides the order of the frontier.                *)
(***************************************************************************)
InitOrder ==
    /\ \E par \in Forests(MaxNodes + 1) :
         \E failing \in SUBSET (1..(MaxNodes + 1)) :
           LET n == MaxNodes + 1
           IN /\ post_kids = KidsOfPosition(par, n, 0)
              /\ items = [id \in {IdPool[i] : i \in 1..n} |->
                             LET i == CHOOSE i \in 1..n : IdPool[i] = id
                             IN ShapedItem(id, KidsOfPosition(par, n, i), "comment")]
              /\ net_fail = {IdPool[i] : i \in failing}
    /\ concurrency \in {ScaledConcurrency, DEFAULT_CONCURRENCY}
    /\ limit = ScenarioLimit
    /\ pc = "start"
    /\ root_kids = <<>>
    /\ pending = <<>>
    /\ scheduled_ids = {}
    /\ failed_ids = {}
    /\ items_by_id = EmptyMap
    /\ batch = <<>>
    /\ fetched = <<>>
    /\ result = Pending
    /\ exit_path = "none"
    /\ requests = <<>>
    /\ AppStart

\* fetch_comments runs while the first page of posts is fetched by
\* fetch_items_by_ids and handled.
NextOrder ==
    \/ NextBuild
    \/ HandleRefresh
    \/ PostsTaskCompletes
    \/ HandlePostsFetched

SpecOrder == InitOrder /\ [][NextOrder]_vars

\* The results of a round as they are collected when the requests complete
\* in the order they were dispatched in.
InDispatchOrder(ids) ==
    [j \in 1..Len(ids) |-> <<j - 1, ids[j], FetchSingleItem(ids[j])>>]

\* fetch_comments from the top of its loop on, every round completing in
\* dispatch order: the value returned and the rounds requested.
RECURSIVE RunInDispatchOrder(_, _)
RunInDispatchOrder(st, rounds) ==
    LET built == build_comments_from_cache(post_kids, limit, st.items_by_id,
                                           st.failed_ids)
    IN IF PassReturns(built, limit, st.pending)
       THEN [result |-> Ok(built[1]), rounds |-> rounds]
       ELSE IF st.pending = <<>>
       THEN [result |-> Ok(UnwrapOr(built, <<>>)), rounds |-> rounds]
       ELSE LET ids == TakeBatch(st.pending)
                left == [st EXCEPT !.pending =
                            SubSeq(@, 1, Len(@) - BatchSize(@))]
            IN RunInDispatchOrder(
                   ProcessFetched(Reverse(InDispatchOrder(ids)), left),
                   Append(rounds, ids))

\* The run in dispatch order of the source and the arguments of this run.
ReferenceRun ==
    RunInDispatchOrder(Locals(Reverse(post_kids), Range(post_kids), EmptyMap, {}),
                       <<>>)

\* The results arrived in another order than they were dispatched in.
ArrivedOutOfOrder ==
    \E k \in 1..(Len(fetched) - 1) : fetched[k][1] > fetched[k + 1][1]

\* Processing the results of a round leaves the locals that processing them
\* in dispatch order leaves.
ProcessesAsInDispatchOrder ==
    ProcessesResults =>
        Locals(pending', scheduled_ids', items_by_id', failed_ids')
            = ProcessFetched(Reverse(InDispatchOrder(batch)),
                             Locals(pending, scheduled_ids, items_by_id, failed_ids))

\* A run that got the post returns what the run in dispatch order returns
\* and has requested the same ids in the same rounds.
ReturnsAsInDispatchOrder ==
    (pc = "done" /\ exit_path # "post_error") =>
        /\ result = ReferenceRun.result
        /\ requests = <<<<PostId>>>> \o ReferenceRun.rounds

\* The ids of item_list in their order.
ItemIds(item_list) == [i \in 1..Len(item_list) |-> item_list[i].id]

\* sub holds entries of full, each once, in the order they have in full.
IsInOrderOf(sub, full) ==
    \E at \in [1..Len(sub) -> 1..Len(full)] :
        /\ \A k \in 1..Len(sub) : sub[k] = full[at[k]]
        /\ \A k \in 1..(Len(sub) - 1) : at[k] < at[k + 1]

\* The items of every fetched page, and the posts made of them, are in the
\* order of the story ids they were asked for with.
PagesInInputOrder ==
    /\ \A i \in DOMAIN events :
         (events[i].type = "PostsFetched" /\ events[i].result.ok) =>
             IsInOrderOf(ItemIds(events[i].result.payload.items),
                         StoryIdsOf(app.selected_feed))
    /\ IsInOrderOf(PostIds(app.posts), StoryIdsOf(app.selected_feed))

\* A posts task that completes sends the items that it sends when its
\* requests complete in dispatch order and the same item fetches fail.
SendsAsInDispatchOrder ==
    PostsTaskCompletes =>
        LET ev == events'[Len(events')]
            task == CHOOSE task \in Range(posts_tasks) :
                        task.request_id = ev.request_id
            ids == SubSeq(StoryIdsOf(task.feed), 1,
                          Min(Len(StoryIdsOf(task.feed)), POSTS_PAGE_SIZE))
        IN ev.result.ok =>
             \E failing \in SUBSET (FlakyIds \cap Range(ids)) :
                 ev.result.payload.items
                     = fetch_items_by_ids(ids, failing, DispatchOrder(Len(ids)))

\* C37: the results of batched fetches do not depend on the order in which
\* the concurrent requests of a batch complete.  Whatever order the results
\* of a round of fetch_comments arrive in, processing them leaves the locals
\* that dispatch order leaves, and the run returns the node sequence and has
\* requested the ids, round by round, of the run in dispatch order; and
\* fetch_items_by_ids returns the surviving items in the order of its ids.
C37_CompletionOrderDoesNotMatter ==
    /\ []ReturnsAsInDispatchOrder
    /\ [][ProcessesAsInDispatchOrder]_vars
    /\ []PagesInInputOrder
    /\ [][SendsAsInDispatchOrder]_vars

\* A round whose results arrived out of dispatch order has been collected,
\* two of its items having kids.
C37_Witness ==
    /\ pc = "fetching"
    /\ Collected(InFlight)
    /\ ArrivedOutOfOrder
    /\ Cardinality({k \in DOMAIN fetched :
                       fetched[k][3].some /\ fetched[k][3].item.kids # <<>>}) >= 2

\* A run that fetched its items in more than one round has returned nodes.
C37_WitnessReturned ==
    /\ pc = "done"
    /\ exit_path # "post_error"
    /\ Len(requests) >= 3
    /\ result.kind = "ok"
    /\ Len(result.comments) >= 3

\* A page of two posts has been fetched and shown.
C37_WitnessPage ==
    /\ Len(app.posts) = POSTS_PAGE_SIZE
    /\ ~app.loading

(***************************************************************************)
(* C38, C39: the feed tabs together with load-more.  Feed switches, load-  *)
(* more, refresh and selection keys while posts requests are in flight,    *)
(* for as long as next_posts_request_id has not wrapped.                   *)
(***************************************************************************)
\* The step does not wrap next_posts_request_id around.
IdsNotWrapped == app'.next_posts_request_id >= app.next_posts_request_id

NextSwitch ==
    \/ HandleRefresh /\ IdsNotWrapped
    \/ HandlePostsFetched
    \/ PostsTaskCompletes
    \/ KeyRefresh
    \/ KeySelectNextFeed
    \/ KeySelectNextAndLoadMore /\ IdsNotWrapped
    \/ KeySelectPrevious

SpecSwitch == InitApp /\ [][NextSwitch]_vars

\* The selection is none over an empty post list and an index of the list
\* otherwise.
SelectionIsOfPosts ==
    IF app.posts = <<>> THEN app.selected = None
    ELSE app.selected # None /\ app.selected[1] \in 0..(Len(app.posts) - 1)

\* The step moves the selection down: to the next post, from the last post
\* to the first.
MovesDownAndWraps ==
    (KeySelectNextAndLoadMore /\ app.posts # <<>>) =>
        app'.selected = Some((app.selected[1] + 1) % Len(app.posts))

\* The step moves the selection up: to the post before, from the first post
\* to the last.
MovesUpAndWraps ==
    (KeySelectPrevious /\ app.posts # <<>>) =>
        app'.selected = Some((app.selected[1] + Len(app.posts) - 1) % Len(app.posts))

\* C38: in every reachable state the post selection is none when the post
\* list is empty and otherwise an index smaller than the number of posts;
\* applying a replace or append result, restoring a feed from the cache,
\* resetting a feed and up/down navigation keep it, and navigation wraps
\* around at both ends.
C38_SelectionIsValid ==
    /\ []SelectionIsOfPosts
    /\ [][MovesDownAndWraps]_vars
    /\ [][MovesUpAndWraps]_vars

\* A feed of two posts with the second selected has been restored from the
\* cache.
C38_Witness ==
    /\ app.selected_feed = "Top"
    /\ "New" \in DOMAIN app.feed_cache
    /\ Len(app.posts) = 2
    /\ app.selected = Some(1)

\* An appended page has been applied and the selection is on its post.
C38_WitnessAppend ==
    /\ Len(app.posts) = 3
    /\ app.selected = Some(2)

\* A feed has been reset by a switch to a feed that is not in the cache.
C38_WitnessReset ==
    /\ app.selected_feed = "New"
    /\ "Top" \in DOMAIN app.feed_cache
    /\ app.feed_cache["Top"].posts # <<>>
    /\ app.posts = <<>>
    /\ app.selected = None

\* The cursor is at most the number of story ids of the live feed state.
CursorWithinStoryIds == app.next_story_index <= Len(app.story_ids)

\* Applying a result leaves has_more_posts false when the cursor is at the
\* number of story ids.
EndOfFeedIsRecorded ==
    (AppliesPostsResult /\ app'.next_story_index = Len(app'.story_ids)) =>
        ~app'.has_more_posts

\* C39: in every reachable state the pagination cursor next_story_index is at
\* most the number of story ids of the live feed state, and has_more_posts
\* is false whenever a result has been applied with the cursor at that
\* number, also when the feed is switched or refreshed while a load-more
\* request is in flight.
C39_CursorWithinStoryIds ==
    /\ []CursorWithinStoryIds
    /\ [][EndOfFeedIsRecorded]_vars

(***************************************************************************)
(* C40: the loading state of the comment view.                             *)
(***************************************************************************)
\* A comment fetch for post_id is in flight: its task runs, or its event is
\* in the channel.
CommentFetchInFlight(post_id) ==
    \/ \E i \in DOMAIN comment_tasks : comment_tasks[i].post_id = post_id
    \/ \E i \in DOMAIN events :
         /\ events[i].type = "LoadCommentsComplete"
         /\ events[i].post_id = post_id

\* The comment view is open and loading the comments of post_id.
LoadingFor(post_id) ==
    /\ app.comments_open
    /\ app.comments_loading
    /\ app.comments_for_post_id = Some(post_id)

\* An open view that is loading shows a post, and a fetch for that post is
\* in flight.
LoadingHasFetchInFlight ==
    (app.comments_open /\ app.comments_loading) =>
        /\ app.comments_for_post_id # None
        /\ CommentFetchInFlight(app.comments_for_post_id[1])

\* The loading state ends only by a delivered result for the displayed post
\* or by a step that closes or re-targets the view.
LoadingEndsByResultOrClose ==
    \A post_id \in StoryIds :
        (LoadingFor(post_id) /\ ~LoadingFor(post_id)') =>
            \/ /\ HandlesLoadCommentsComplete
               /\ Head(events).post_id = post_id
            \/ ~app'.comments_open
            \/ app'.comments_for_post_id # Some(post_id)

\* A comment task resolves: the step of CommentTaskCompletes, told by the
\* task it takes away.
ACommentTaskResolves ==
    /\ Len(comment_tasks') < Len(comment_tasks)
    /\ CommentTaskCompletes

\* A posts task resolves.
APostsTaskResolves ==
    /\ Len(posts_tasks') < Len(posts_tasks)
    /\ PostsTaskCompletes

\* A step of the event loop: the event at the head of the channel is
\* handled.
HandleEvent ==
    /\ Len(events') < Len(events)
    /\ \/ HandleRefresh
       \/ HandlePostsFetched
       \/ HandleLoadCommentsComplete

\* The tasks run and the event loop receives: a comment task resolves unless
\* none is running, a posts task resolves unless none is running, and an
\* event is handled unless the channel is empty.  Each conjunct is weak
\* fairness of the action, with its enabling condition written out.
FairnessComments ==
    /\ []<>(comment_tasks = <<>>) \/ []<><<ACommentTaskResolves>>_vars
    /\ []<>(posts_tasks = <<>>) \/ []<><<APostsTaskResolves>>_vars
    /\ []<>(events = <<>>) \/ []<><<HandleEvent>>_vars

SpecCommentsFair == SpecComments /\ FairnessComments

\* The same over the comments cache under refreshes of the posts, where a
\* refresh resets the comment view while its fetch is in flight.
SpecCacheFair == SpecCache /\ FairnessComments

\* The loading state of an open view ends: the view does not stay open and
\* loading the comments of one post for ever.
LoadingEnds ==
    \A post_id \in StoryIds : LoadingFor(post_id) ~> ~LoadingFor(post_id)

\* C40: whenever the comment view is open with comments_loading true, a
\* comment fetch for the displayed post id is in flight, issued and its
\* result not yet delivered; hence, the fetch tasks completing, the loading
\* state of an open view always ends, by a delivered result or by closing or
\* re-targeting the view.
C40_LoadingHasFetchInFlight ==
    /\ []LoadingHasFetchInFlight
    /\ [][LoadingEndsByResultOrClose]_vars
    /\ LoadingEnds

\* The view is open and loading while an earlier fetch for the same post is
\* still in flight beside the one it began.
C40_Witness ==
    /\ app.comments_open
    /\ app.comments_loading
    /\ Cardinality({i \in DOMAIN comment_tasks :
                       app.comments_for_post_id = Some(comment_tasks[i].post_id)}) >= 2

====
